---------------------------- MODULE Spec2Model ----------------------------
(***************************************************************************)
(* PathFinder: one target run of the crawler (src/spider.go and the        *)
(* driver, src/unnamed/part_002).                                          *)
(*                                                                         *)
(* A URL is the record of the fields net/url parses a string into.  A host *)
(* is the sequence of its labels, or of the groups of an IPv6 literal      *)
(* (ip6 says whether the literal stands in brackets).  The string form of  *)
(* a URL (u.String()) is URLString; for a host name it determines the      *)
(* record.  A reference found in a page (an href, a src, a linkfinder      *)
(* token, a robots line) is such a record too; it is relative when its     *)
(* host is empty.                                                          *)
(***************************************************************************)
EXTENDS Integers, Sequences, FiniteSets, TLC

(***************************************************************************)
(* Bounds of the model.                                                    *)
(***************************************************************************)
\* references the linkfinder regex, or the robots parser, finds in one body
MaxTokens == 2
\* references (elements, linkfinder paths, robots lines) the servers put in
\* the bodies of one target run, all bodies together
MaxRefs == 2
\* largest value of the depth flag that is tried
MaxDepthFlag == 1

\* the default of the depth flag
DefaultDepth == 1

(***************************************************************************)
(* The hosts, paths and references the modelled web is made of.            *)
(***************************************************************************)
HA == <<"a", "test">>
HAPI == <<"api", "a", "test">>
HV == <<"v", "api", "a", "test">>
HB == <<"b", "test">>

NoHost == <<>>

MkURL(h, p, f) ==
    [scheme |-> "https", host |-> h, ip6 |-> "", port |-> "", path |-> p,
     frag |-> f]

RefPool ==
    { MkURL(NoHost, "/x", ""), MkURL(NoHost, "/X", "f"),
      MkURL(NoHost, "/robots.txt", ""), MkURL(NoHost, "/s.js", ""),
      MkURL(HV, "/x", ""), MkURL(HB, "/s.js", "") }

\* where a server may redirect a request to
RedirectPool == { MkURL(HB, "/x", "") }

\* the targets given on the command line: a bare domain or a full URL
TargetPool ==
    { [bare |-> TRUE, host |-> HA, path |-> ""],
      [bare |-> TRUE, host |-> HAPI, path |-> ""],
      [bare |-> FALSE, host |-> HA, path |-> ""],
      [bare |-> FALSE, host |-> HAPI, path |-> ""] }

\* HTTP statuses of the error path: transport failure, 403, 404
ErrorStatusPool == {0, 403, 404}

SeqsUpTo(S, n) == UNION { [1..k -> S] : k \in 0..n }

(***************************************************************************)
(* Strings: the operations the code applies to paths.                      *)
(***************************************************************************)
\* strings.ToLower on the strings of the model
ToLower(p) ==
    CASE p = "/X" -> "/x"
      [] p = "URL" -> "url"
      [] p = " Href " -> " href "
      [] OTHER -> p

\* strings.TrimSpace on the strings of the model
TrimSpace(p) ==
    CASE p = " " -> ""
      [] p = " url" -> "url"
      [] p = " href " -> "href"
      [] OTHER -> p

\* string concatenation, on the paths of the model
Concat(p, q) ==
    CASE p = "" -> q
      [] p = "/" /\ q = "/robots.txt" -> "//robots.txt"
      [] p = "/app" /\ q = "/robots.txt" -> "/app/robots.txt"
      [] p = "/" /\ q = "/sitemap.xml" -> "//sitemap.xml"
      [] p = "/app" /\ q = "/sitemap.xml" -> "/app/sitemap.xml"

(***************************************************************************)
(* Emit filter: the types and exclude-types flags.                         *)
(***************************************************************************)
\* a CSV flag value is the sequence strings.Split(csv, ",") returns: never
\* empty, <<"">> for the empty string
EmptyCSV == <<"">>

\* strings.TrimSpace(includeCSV) == "": only a string without a comma can
\* be blank
BlankCSV(csv) == Len(csv) = 1 /\ TrimSpace(csv[1]) = ""

\* NewEmitFilter: trim := TrimSpace(ToLower(s)), empty entries skipped
TrimmedEntries(csv) ==
    { TrimSpace(ToLower(csv[i])) : i \in 1..Len(csv) } \ {""}

NewEmitFilter(includeCSV, excludeCSV) ==
    [allowAll |-> BlankCSV(includeCSV),
     allow |-> IF BlankCSV(includeCSV) THEN {}
               ELSE TrimmedEntries(includeCSV),
     deny |-> TrimmedEntries(excludeCSV)]

\* EmitFilter.OK
OK(f, kind) ==
    IF ToLower(kind) \in f.deny THEN FALSE
    ELSE IF f.allowAll THEN TRUE
    ELSE ToLower(kind) \in f.allow

\* "Soft cap: skip heavy regex scans for huge bodies", 4MB
maxGrepBody == 4 * 1024 * 1024

\* path.Ext of the paths of the pool
PathExt(p) ==
    CASE p = "/s.js" -> ".js"
      [] p = "/s.min.js" -> ".js"
      [] p = "/f.png" -> ".png"
      [] p = "/robots.txt" -> ".txt"
      [] p = "/app/robots.txt" -> ".txt"
      [] p = "//robots.txt" -> ".txt"
      [] p = "/sitemap.xml" -> ".xml"
      [] p = "/app/sitemap.xml" -> ".xml"
      [] p = "//sitemap.xml" -> ".xml"
      [] p = "/sitemap_index.xml" -> ".xml"
      [] p = "/n.xml" -> ".xml"
      [] OTHER -> ""

GetExtType(u) == PathExt(u.path)

DisallowedExts == {".png", ".css", ".jpg", ".gif", ".svg", ".woff", ".mp4"}

\* disallowedExtRE: a listed extension right before ?, # or the end
DisallowedExtMatch(u) == PathExt(u.path) \in DisallowedExts

ScriptLikeSrc == {".js", ".xml", ".json"}
ScriptLikeToken == {".js", ".xml", ".json", ".map"}


(***************************************************************************)
(* URL model: canonical form, reference resolution, apex, scope.           *)
(***************************************************************************)
\* the scheme's default port is given
DefaultPort(u) ==
    \/ (u.scheme = "http" /\ u.port = "80")
    \/ (u.scheme = "https" /\ u.port = "443")

\* canonicalizeURL: the fragment dropped; under a default port the Host
\* field replaced by u2.Hostname(), which is without the port and without
\* the brackets of an IPv6 literal; an empty path replaced by "/"
canonicalizeURL(u) ==
    [u EXCEPT !.frag = "",
              !.port = IF DefaultPort(u) THEN "" ELSE @,
              !.ip6 = IF DefaultPort(u) /\ @ = "bracketed" THEN "bare"
                      ELSE @,
              !.path = IF @ = "" THEN "/" ELSE @]

\* validOptionalPort on the colon-separated fields of the model: digits
Digits(g) == g \in {"1", "80", "443", "8080"}

\* u.String(): the scheme, the Host field as text, the path, the fragment.
\* The text of a Host field is its fields and how they are separated; for
\* a literal without brackets the port is one more colon-separated field.
URLString(u) ==
    [scheme |-> u.scheme,
     brackets |-> u.ip6 = "bracketed",
     sep |-> IF u.ip6 = "" THEN "." ELSE ":",
     fields |-> IF u.ip6 = "bare" /\ u.port # "" THEN Append(u.host, u.port)
                ELSE u.host,
     port |-> IF u.ip6 = "bare" THEN "" ELSE u.port,
     path |-> u.path,
     frag |-> u.frag]

\* url.Parse fails
ParseError == [scheme |-> "", host |-> NoHost, ip6 |-> "error", port |-> "",
               path |-> "", frag |-> ""]

\* url.Parse on a string URLString wrote.  In a host that does not start
\* with a bracket whatever follows the last colon is the port, and must be
\* digits.
ParseURL(str) ==
    IF str.brackets \/ str.sep = "."
    THEN [scheme |-> str.scheme, host |-> str.fields,
          ip6 |-> IF str.brackets THEN "bracketed" ELSE "",
          port |-> str.port, path |-> str.path, frag |-> str.frag]
    ELSE LET n == Len(str.fields) IN
         IF ~Digits(str.fields[n]) THEN ParseError
         ELSE [scheme |-> str.scheme, host |-> SubSeq(str.fields, 1, n - 1),
               ip6 |-> "bare", port |-> str.fields[n], path |-> str.path,
               frag |-> str.frag]

\* ResolveReference on a relative path: the bases of the model have no
\* directory below the root, so a path without a leading slash is put
\* under the root
ResolvePath(p) ==
    CASE p = "application/json" -> "/application/json"
      [] p = "12/31/2025" -> "/12/31/2025"
      [] OTHER -> p

\* FixUrl / Request.AbsoluteURL: mainSite.ResolveReference(nextLoc)
FixUrl(base, ref) ==
    IF ref.host = NoHost
    THEN [scheme |-> base.scheme, host |-> base.host, ip6 |-> base.ip6,
          port |-> base.port, path |-> ResolvePath(ref.path),
          frag |-> ref.frag]
    ELSE ref

isAbsoluteURL(ref) == ref.scheme # "" /\ ref.host # NoHost

\* GetDomain: publicsuffix.EffectiveTLDPlusOne, the last two labels of a
\* host under a one-label public suffix; empty when the host has no eTLD+1
GetDomain(h) ==
    IF Len(h) >= 2 THEN SubSeq(h, Len(h) - 1, Len(h)) ELSE NoHost

IsSubdomainOf(h, d) ==
    /\ Len(h) > Len(d)
    /\ SubSeq(h, Len(h) - Len(d) + 1, Len(h)) = d

\* One scope pattern, ^https?://([^.]+\.)*HOST(?::\d+)?(?:/|$) with the
\* label prefix present only when subs is set, matched against u.String()
ScopeMatch(pat, u) ==
    /\ u.scheme \in {"http", "https"}
    /\ \/ u.host = pat.host
       \/ pat.subs /\ IsSubdomainOf(u.host, pat.host)
    /\ u.path # "" \/ u.frag = ""

InScope(u, filters) == \E pat \in filters : ScopeMatch(pat, u)

\* a filter that keys on the string as given, case kept
DupKeyCaseSensitive(u) == u

\* StringFilter: the key under which Duplicate stores a URL
DupKey(u) == [u EXCEPT !.path = ToLower(@)]

\* StringFilter.Duplicate: the "loaded" result of LoadOrStore
Duplicate(sf, u) == DupKey(u) \in sf

\* StringFilter.Duplicate: the map after LoadOrStore
LoadOrStore(sf, u) == sf \cup {DupKey(u)}

(***************************************************************************)
(* Target normalisation and the crawler's construction.                    *)
(***************************************************************************)
NoScope == [Domain |-> NoHost, AllowSubs |-> FALSE, set |-> FALSE]

\* normalizeTarget: the start URL and the scope override of a raw target
normalizeTarget(raw) ==
    IF raw.bare
    THEN [site |-> MkURL(raw.host, raw.path, ""),
          scope |-> [Domain |-> IF GetDomain(raw.host) = NoHost
                                THEN raw.host ELSE GetDomain(raw.host),
                     AllowSubs |-> TRUE, set |-> TRUE]]
    ELSE [site |-> MkURL(raw.host, raw.path, ""), scope |-> NoScope]

\* a scope that always takes the subdomains in
SubsAlways(siteURL, scopeOverride, subsFlag) == TRUE

\* NewCrawler: "auto-enable subs if seed == apex" for a full-URL target
EffectiveSubs(siteURL, scopeOverride, subsFlag) ==
    IF scopeOverride.set THEN subsFlag
    ELSE subsFlag \/ siteURL.host = GetDomain(siteURL.host)

\* NewCrawler: c.URLFilters with no whitelist given
NewCrawlerFilters(siteURL, scopeOverride, subsFlag) ==
    IF scopeOverride.set
    THEN {[host |-> scopeOverride.Domain, subs |-> scopeOverride.AllowSubs]}
    ELSE IF EffectiveSubs(siteURL, scopeOverride, subsFlag)
         THEN {[host |-> GetDomain(siteURL.host), subs |-> TRUE]}
         ELSE {[host |-> siteURL.host, subs |-> FALSE]}

(***************************************************************************)
(* State of one target run.                                                *)
(***************************************************************************)
VARIABLES
    target,      \* the raw target string, as [bare, host, path]
    site,        \* crawler.site
    flagSubs,    \* the subs flag
    maxDepth,    \* the depth flag, colly.MaxDepth of both collectors
    URLFilters,  \* crawler.C.URLFilters (LinkFinderCollector mirrors them)
    filterLengthSlice, \* crawler.filterLengthSlice, the filter-length flag
    emit,        \* crawler.emit, the EmitFilter
    pool,        \* the references the servers of this run put in their bodies
    serveHuge,   \* whether the servers of this run send bodies over the soft cap
    urlSet,      \* crawler.urlSet
    jsSet,       \* crawler.jsSet
    visited,     \* the visited store the collector and its clones share
    reqs,        \* requests counted in a collector's WaitGroup
    robots,      \* ParseRobots and its fetchOnce: [pc, ch, ok, code]
    pcStart,     \* the goroutine running crawler.Start
    pcMain,      \* the worker: siteWg.Wait, C.Wait, LinkFinderCollector.Wait, Close
    emitted,     \* history: the records passed to emitLine
    late,        \* history: the records passed to emitLine after Output.Close
    issued,      \* history: every request a collector has issued
    refused,     \* history: every Visit a collector has refused for its depth
    fresh,       \* history: the Duplicate calls, per filter and lowercased key
    dropped,     \* history: the URLs the href and linkfinder code dropped as off scope
    skipped,     \* history: the tokens the linkfinder loops skipped as noise
    answered,    \* history: the responses and errors the two collectors received
    renderBudget, \* the render-budget flag
    budget,      \* StartRenderManager: the budget left
    queue,       \* StartRenderManager: the queue of pages to render
    seenRender,  \* StartRenderManager: the deduper of rendered pages
    navigating,  \* the page the headless browser is on, if any
    rendered,    \* history: the number of pages navigated to
    call,        \* the last application of a function tried on its own
    formSet,     \* crawler.formSet
    uploadFormSet, \* Start: uploadFormSet
    fired,       \* history: the form and input callbacks fired, per page
    sitemap,     \* ParseSiteMap and its fetchOnce calls
    archive,     \* the other-source goroutine of the worker
    drv,         \* the driver: the target channel and the workers
    served       \* the references served so far

vars ==
    <<target, site, flagSubs, maxDepth, URLFilters, urlSet, jsSet, visited,
      reqs, robots, pcStart, pcMain, emitted, late, issued, refused, fresh,
      dropped, skipped, served, filterLengthSlice, emit, pool, serveHuge,
      answered,
      renderBudget, budget, queue, seenRender, navigating, rendered, call,
      formSet, uploadFormSet, fired, sitemap, archive, drv>>

cfgVars ==
    <<target, site, flagSubs, maxDepth, URLFilters, filterLengthSlice, emit,
      pool, serveHuge>>

\* the renderer's state
renderVars == <<budget, queue, seenRender, navigating, rendered>>

\* the form deduplication of Start
formVars == <<formSet, uploadFormSet, fired>>

\* the sitemap and other-source producers, and the driver around the run
asideVars == <<sitemap, archive, drv>>

\* what the fetch goroutines, the robots producer and the worker's waits
\* leave alone
idleVars == <<renderBudget, renderVars, call, formVars, asideVars>>


(***************************************************************************)
(* The mutable state of the crawler as one record, so that a handler that  *)
(* loops over a body is one fold over it.                                  *)
(***************************************************************************)
CS ==
    [urlSet |-> urlSet, jsSet |-> jsSet, visited |-> visited, reqs |-> reqs,
     emitted |-> emitted, late |-> late, issued |-> issued,
     refused |-> refused, fresh |-> fresh, dropped |-> dropped,
     skipped |-> skipped, answered |-> answered]

SetCS(s) ==
    /\ urlSet' = s.urlSet
    /\ jsSet' = s.jsSet
    /\ visited' = s.visited
    /\ reqs' = s.reqs
    /\ emitted' = s.emitted
    /\ late' = s.late
    /\ issued' = s.issued
    /\ refused' = s.refused
    /\ fresh' = s.fresh
    /\ dropped' = s.dropped
    /\ skipped' = s.skipped
    /\ answered' = s.answered

\* the lowercased form of a key, as the deduper's contract states it
LowerKey(u) == [u EXCEPT !.path = ToLower(@)]

\* the history of the Duplicate calls on one lowercased key: how many
\* returned false, and the strings that were presented
CountFresh(fn, k, u, loaded) ==
    LET old == IF k \in DOMAIN fn THEN fn[k] ELSE [n |-> 0, raw |-> {}]
        new == [n |-> IF loaded THEN old.n ELSE old.n + 1,
                raw |-> old.raw \cup {u}]
    IN [x \in DOMAIN fn \cup {k} |-> IF x = k THEN new ELSE fn[x]]

\* one call of StringFilter.Duplicate on the filter named f
Observe(s, f, u) ==
    [s EXCEPT ![f] = LoadOrStore(@, u),
              !.fresh = CountFresh(@, <<f, LowerKey(u)>>, u,
                                   Duplicate(s[f], u))]

\* the kinds of the records emitted so far for the URL out (history)
Prior(s, out) == { e.kind : e \in { x \in s.emitted : x.out = out } }

\* emitLine: the line is printed unless the emit filter rejects its kind.
\* A line is the record of what it shows: the kind, the URL, and for a url
\* line the status and the body length.
emitLineLen(s, kind, out, status, length) ==
    LET rec == [kind |-> kind, out |-> out, status |-> status,
                length |-> length, prior |-> Prior(s, out)] IN
    IF ~OK(emit, kind) THEN s
    ELSE [s EXCEPT !.emitted = @ \cup {rec},
                   !.late = IF pcMain = "closed" THEN @ \cup {rec} ELSE @]

emitLine(s, kind, out, status) == emitLineLen(s, kind, out, status, 0)

\* a collector's callback has been handed a response (history)
Answer(s, col, status, length, u) ==
    [s EXCEPT !.answered = @ \cup
        {[col |-> col, url |-> u, status |-> status, length |-> length]}]

\* a depth check that takes a limit of 0 as a limit
DepthExceededAtZero(limit, depth) == limit < depth

\* a depth check that lets one more level through
DepthExceededOffByOne(limit, depth) == limit > 0 /\ limit + 1 < depth

\* colly requestCheck: MaxDepth > 0 && MaxDepth < depth
DepthExceeded(limit, depth) == limit > 0 /\ limit < depth

\* colly requestCheck, in its order; "" when the request is accepted
requestCheck(s, u, depth) ==
    IF DepthExceeded(maxDepth, depth) THEN "ErrMaxDepth"
    ELSE IF DisallowedExtMatch(u) THEN "ErrForbiddenURL"
    ELSE IF ~InScope(u, URLFilters) THEN "ErrNoURLFiltersMatch"
    ELSE IF u \in s.visited THEN "ErrAlreadyVisited"
    ELSE ""

\* Collector.Visit / Request.Visit on collector col: refused, or stored as
\* visited, added to the collector's WaitGroup and fetched asynchronously.
\* via names the producer and dd the discovery distance of u from the seed
\* (history only).
Visit(s, col, u, depth, via, dd) ==
    LET err == requestCheck(s, u, depth) IN
    IF err # ""
    THEN [s EXCEPT !.refused = IF err = "ErrMaxDepth"
                               THEN @ \cup {[col |-> col, url |-> u]} ELSE @]
    ELSE LET r == [col |-> col, url |-> u, depth |-> depth, via |-> via,
                   dd |-> dd] IN
         [s EXCEPT !.visited = @ \cup {u},
                   !.reqs = @ \cup {[req |-> r, url |-> u, stage |-> "fetch"]},
                   !.issued = @ \cup {r}]

\* strings.Contains(jsFileUrl, ".min.js") on the paths of the pool
ContainsMinJs(u) == u.path = "/s.min.js"

\* strings.ReplaceAll(jsFileUrl, ".min.js", ".js")
Unminified(u) == [u EXCEPT !.path = IF @ = "/s.min.js" THEN "/s.js" ELSE @]

\* a feed that emits an asset only when it is in scope
feedLinkfinderScoped(s, jsFileUrl, via, dd) ==
    IF Duplicate(s.jsSet, jsFileUrl) THEN Observe(s, "jsSet", jsFileUrl)
    ELSE LET s1 == Observe(s, "jsSet", jsFileUrl)
             js == canonicalizeURL(jsFileUrl)
         IN IF ~InScope(jsFileUrl, URLFilters) THEN s1
            ELSE Visit(emitLine(s1, "javascript", js, 0), "LF", js, 1, via,
                       dd)

\* Crawler.feedLinkfinder
feedLinkfinder(s, jsFileUrl, via, dd) ==
    IF Duplicate(s.jsSet, jsFileUrl) THEN Observe(s, "jsSet", jsFileUrl)
    ELSE LET s1 == Observe(s, "jsSet", jsFileUrl)
             js == canonicalizeURL(jsFileUrl)
             s2 == emitLine(s1, "javascript", js, 0)
             s3 == IF ContainsMinJs(js)
                   THEN Visit(s2, "LF", Unminified(js), 1, via, dd) ELSE s2
         IN IF ~InScope(jsFileUrl, URLFilters) THEN s2
            ELSE Visit(s3, "LF", js, 1, via, dd)

\* "drop off-scope before printing"
Drop(s, u) == [s EXCEPT !.dropped = @ \cup {u}]

\* mimeRE, dateRE, and the two strings.Contains tests, on the paths of the
\* pool
MimeMatch(p) == p \in {"application/json", "text/plain"}

DateMatch(p) == p \in {"12/31/2025"}

ContainsBraces(p) == p \in {"/t/{{id}}"}

ContainsRoute(p) == p \in {"/t/:id"}

\* the text of a token is its path alone
PathOnly(t) == t.host = NoHost /\ t.frag = ""

\* a noise test that knows MIME types and dates only
isNoiseTokenNoTemplates(t) ==
    \/ PathOnly(t) /\ t.path = ""
    \/ PathOnly(t) /\ MimeMatch(t.path)
    \/ PathOnly(t) /\ DateMatch(t.path)

\* isNoiseToken: empty, a MIME type, a date, a template, a route template.
\* The two patterns are anchored at both ends, the two Contains tests see
\* the whole token.
isNoiseToken(t) ==
    \/ PathOnly(t) /\ t.path = ""
    \/ PathOnly(t) /\ MimeMatch(t.path)
    \/ PathOnly(t) /\ DateMatch(t.path)
    \/ ContainsBraces(t.path)
    \/ ContainsRoute(t.path)

\* "continue" on a noise token (history: the token and the body's URL)
Skip(s, baseURL, relPath) ==
    [s EXCEPT !.skipped = @ \cup {[base |-> baseURL, tok |-> relPath]}]

\* one linkfinder result: emit it as linkfinder and visit it on the primary
\* collector, unless the deduper has seen it
LinkfinderEmit(s, u, dd) ==
    IF Duplicate(s.urlSet, u) THEN Observe(s, "urlSet", u)
    ELSE Visit(emitLine(Observe(s, "urlSet", u), "linkfinder", u, 0),
               "C", u, 1, "linkfinder", dd)

\* the body of the loop over the linkfinder paths of one response
LinkfinderToken(s, baseURL, relPath, dd) ==
    IF isNoiseToken(relPath) THEN Skip(s, baseURL, relPath)
    ELSE IF isAbsoluteURL(relPath)
    THEN IF ~InScope(relPath, URLFilters) THEN Drop(s, relPath)
         ELSE LinkfinderEmit(s, canonicalizeURL(relPath), dd)
    ELSE LET uReb == FixUrl(baseURL, relPath)
             rebuildURL == canonicalizeURL(uReb)
         IN IF ~InScope(uReb, URLFilters) THEN Drop(s, uReb)
            ELSE IF GetExtType(rebuildURL) \in ScriptLikeToken
            THEN feedLinkfinder(s, rebuildURL, "linkfinder", dd)
            ELSE LinkfinderEmit(s, rebuildURL, dd)

RECURSIVE LinkfinderPaths(_, _, _, _)
LinkfinderPaths(s, baseURL, paths, dd) ==
    IF paths = <<>> THEN s
    ELSE LinkfinderPaths(LinkfinderToken(s, baseURL, Head(paths), dd),
                         baseURL, Tail(paths), dd)

\* emitURL
emitURL(s, status, length, u) == emitLineLen(s, "url", u, status, length)

\* contains(crawler.filterLengthSlice, bodyLen), behind the len(...) == 0 test
contains(ii, j) == \E i \in 1..Len(ii) : ii[i] = j

LengthFiltered(bodyLen) ==
    ~(Len(filterLengthSlice) = 0 \/ ~contains(filterLengthSlice, bodyLen))

\* crawler.C.OnResponse: unless the body length is filtered, the url record,
\* then linkfinder over an HTML body of an in-scope response that is not
\* over the soft cap
OnResponse(s, r, status, u, html, body) ==
    LET decoded == body.len <= maxGrepBody
        s1 == emitURL(s, status, body.len, u)
    IN IF LengthFiltered(body.len) THEN s
       ELSE IF decoded /\ InScope(u, URLFilters) /\ html
       THEN LinkfinderPaths(s1, u, body.paths, r.dd + 1)
       ELSE s1

\* crawler.C.OnError
OnError(s, status, length, u) ==
    IF status = 404 \/ status = 429 \/ status < 100 \/ status >= 500
    THEN s ELSE emitURL(s, status, length, u)

\* LinkFinderCollector.OnResponse (setupLinkFinder)
LinkFinderOnResponse(s, r, status, u, body) ==
    IF status = 404 \/ status = 429 \/ status < 100 THEN s
    ELSE IF body.len > maxGrepBody THEN emitURL(s, status, body.len, u)
    ELSE IF LengthFiltered(body.len) THEN s
    ELSE LET s1 == emitURL(s, status, body.len, u) IN
         IF InScope(u, URLFilters)
         THEN LinkfinderPaths(s1, u, body.paths, r.dd + 1)
         ELSE s1

\* crawler.C.OnHTML, case "a", "link"
OnHTMLHref(s, r, base, href) ==
    LET abs == FixUrl(base, href)
        urlString == canonicalizeURL(abs)
    IN IF DisallowedExtMatch(abs) THEN s
       ELSE IF ~InScope(abs, URLFilters) THEN Drop(s, abs)
       ELSE IF Duplicate(s.urlSet, urlString)
       THEN Observe(s, "urlSet", urlString)
       ELSE Visit(emitLine(Observe(s, "urlSet", urlString), "href",
                           urlString, 0),
                  "C", urlString, r.depth + 1, "href", r.dd + 1)

\* crawler.C.OnHTML, case "script"
OnHTMLScript(s, r, base, src) ==
    LET jsFileUrl == FixUrl(base, src) IN
    IF GetExtType(jsFileUrl) \in ScriptLikeSrc
    THEN feedLinkfinder(s, jsFileUrl, "script", r.dd + 1)
    ELSE s


(***************************************************************************)
(* The network: what a server may answer.                                  *)
(***************************************************************************)
\* the bodies served carry references only while the budget lasts
Budget == served < MaxRefs

Min(a, b) == IF a < b THEN a ELSE b

Bodies == SeqsUpTo(pool, Min(MaxTokens, MaxRefs - served))

\* a response body: its length (one unit per reference in it) and the
\* references the linkfinder regex finds in it; or a body over the soft
\* cap, which is never scanned
HugeBody == [len |-> maxGrepBody + 1, paths |-> <<>>]

ResponseBodies ==
    { [len |-> Len(p), paths |-> p] : p \in Bodies }
        \cup (IF serveHuge THEN {HugeBody} ELSE {})

\* the status of a response handed to OnResponse (below 203)
OKStatusPool == {200}

\* the length of the body that comes with an error status
ErrorBodyLens == {0}

\* the URL of the response: the request's, or a redirect's target (the
\* client set by SetClient follows redirects when no-redirect is not given)
FinalURLs(q) == {q.url} \cup RedirectPool

Done(s, q) == [s EXCEPT !.reqs = @ \ {q}]

(***************************************************************************)
(* Init: the state NewCrawler leaves, for each target and flag setting.    *)
(***************************************************************************)
\* no page is being rendered
NoPage == [scheme |-> "", host |-> NoHost, ip6 |-> "", port |-> "",
           path |-> "", frag |-> ""]

\* no function has been applied
NoCall == [fn |-> "none"]

\* the default of the render-budget flag
DefaultRenderBudget == 6

\* the render flag is not given: StartRenderManager is not called
RenderOff ==
    /\ renderBudget = DefaultRenderBudget
    /\ budget = 0
    /\ queue = <<>>
    /\ seenRender = {}
    /\ navigating = NoPage
    /\ rendered = 0

\* the sitemap flag and the other-source flag are not given, and the run is
\* looked at without the driver around it
SitemapOff == [pc |-> "off"]

ArchiveOff == [pc |-> "off"]

NoDriver == [pc |-> "none"]

ProducersOff ==
    /\ sitemap = SitemapOff
    /\ archive = ArchiveOff
    /\ drv = NoDriver

\* ParseRobots has not started; the robots flag is not given
RobotsStart == [pc |-> "start", ch |-> FALSE, ok |-> FALSE, code |-> 0]

RobotsOff == [pc |-> "off", ch |-> FALSE, ok |-> FALSE, code |-> 0]

InitCrawlWith(configs, robots0) ==
    /\ \E c \in configs :
          /\ target = c.target
          /\ flagSubs = c.subs
          /\ maxDepth = c.depth
          /\ filterLengthSlice = c.filter
          /\ pool = c.pool
          /\ serveHuge = c.huge
    /\ site = normalizeTarget(target).site
    /\ emit = NewEmitFilter(EmptyCSV, EmptyCSV)
    /\ URLFilters =
          NewCrawlerFilters(site, normalizeTarget(target).scope, flagSubs)
    /\ urlSet = {}
    /\ jsSet = {}
    /\ visited = {}
    /\ reqs = {}
    /\ robots = robots0
    /\ formSet = {}
    /\ uploadFormSet = {}
    /\ fired = [k \in {} |-> 0]
    /\ pcStart = "start"
    /\ pcMain = "siteWait"
    /\ emitted = {}
    /\ late = {}
    /\ issued = {}
    /\ refused = {}
    /\ fresh = [k \in {} |-> 0]
    /\ dropped = {}
    /\ skipped = {}
    /\ answered = {}
    /\ served = 0

InitCrawl(configs) == InitCrawlWith(configs, RobotsStart)

InitWith(configs) ==
    InitCrawl(configs) /\ RenderOff /\ call = NoCall /\ ProducersOff

BareA == [bare |-> TRUE, host |-> HA, path |-> ""]

\* the bare apex under every depth tried, and every other target (the subs
\* flag tried on the full-URL targets) under the default depth
Configs ==
    { c \in [target : TargetPool, subs : BOOLEAN, depth : 0..MaxDepthFlag,
             filter : {<<>>}, pool : {RefPool}, huge : {FALSE}] :
        /\ c.target.bare => ~c.subs
        /\ c.target # BareA => c.depth = DefaultDepth }

Init == InitWith(Configs)


(***************************************************************************)
(* The goroutine of crawler.Start: the seed visit.                         *)
(***************************************************************************)
StartCrawl ==
    /\ pcStart = "start"
    /\ pcStart' = "done"
    /\ SetCS(Visit(CS, "C", site, 1, "seed", 0))
    /\ UNCHANGED <<cfgVars, idleVars, robots, pcMain, served>>

(***************************************************************************)
(* The primary collector's fetch goroutines.                               *)
(***************************************************************************)
\* a response below 203: OnResponse, then the element callbacks if HTML
CResponse(q) ==
    /\ q \in reqs /\ q.req.col = "C" /\ q.stage = "fetch"
    /\ \E u \in FinalURLs(q), html \in BOOLEAN, body \in ResponseBodies,
          status \in OKStatusPool :
          LET s0 == Answer(CS, "C", status, body.len, u)
              s1 == OnResponse(s0, q.req, status, u, html, body)
              s2 == Done(s1, q)
          IN /\ SetCS(IF html
                      THEN [s2 EXCEPT !.reqs = @ \cup
                               {[req |-> q.req, url |-> u, stage |-> "html"]}]
                      ELSE s2)
             /\ served' = served + Len(body.paths)
    /\ UNCHANGED <<cfgVars, idleVars, robots, pcStart, pcMain>>

\* a transport error or a status of 203 and above: OnError
CError(q) ==
    /\ q \in reqs /\ q.req.col = "C" /\ q.stage = "fetch"
    /\ \E u \in FinalURLs(q), status \in ErrorStatusPool,
          length \in ErrorBodyLens :
          SetCS(Done(OnError(Answer(CS, "C", status, length, u),
                             status, length, u), q))
    /\ UNCHANGED <<cfgVars, idleVars, robots, pcStart, pcMain, served>>

\* one a[href] or link[href] element of the page
CElementHref(q) ==
    /\ q \in reqs /\ q.stage = "html"
    /\ Budget
    /\ \E href \in pool : SetCS(OnHTMLHref(CS, q.req, q.url, href))
    /\ served' = served + 1
    /\ UNCHANGED <<cfgVars, idleVars, robots, pcStart, pcMain>>

\* one script[src] element of the page
CElementScript(q) ==
    /\ q \in reqs /\ q.stage = "html"
    /\ Budget
    /\ \E src \in pool : SetCS(OnHTMLScript(CS, q.req, q.url, src))
    /\ served' = served + 1
    /\ UNCHANGED <<cfgVars, idleVars, robots, pcStart, pcMain>>

\* the fetch goroutine ends: wg.Done
CScraped(q) ==
    /\ q \in reqs /\ q.stage = "html"
    /\ SetCS(Done(CS, q))
    /\ UNCHANGED <<cfgVars, idleVars, robots, pcStart, pcMain, served>>

(***************************************************************************)
(* The JS sub-collector's fetch goroutines.                                *)
(***************************************************************************)
LFResponse(q) ==
    /\ q \in reqs /\ q.req.col = "LF" /\ q.stage = "fetch"
    /\ \E u \in FinalURLs(q), body \in ResponseBodies,
          status \in OKStatusPool :
          /\ SetCS(Done(LinkFinderOnResponse(
                           Answer(CS, "LF", status, body.len, u),
                           q.req, status, u, body), q))
          /\ served' = served + Len(body.paths)
    /\ UNCHANGED <<cfgVars, idleVars, robots, pcStart, pcMain>>

\* the JS sub-collector registers no OnError callback
LFError(q) ==
    /\ q \in reqs /\ q.req.col = "LF" /\ q.stage = "fetch"
    /\ \E status \in ErrorStatusPool, length \in ErrorBodyLens :
          SetCS(Done(Answer(CS, "LF", status, length, q.url), q))
    /\ UNCHANGED <<cfgVars, idleVars, robots, pcStart, pcMain, served>>

(***************************************************************************)
(* ParseRobots and its fetchOnce.                                          *)
(***************************************************************************)
\* robotsURL := site.String() + "/robots.txt"
robotsURL == [site EXCEPT !.path = Concat(@, "/robots.txt")]

\* fetchOnce: child := parent.Clone(); child.Visit(u)
RobotsVisit ==
    /\ robots.pc = "start"
    /\ robots' = [robots EXCEPT !.pc = "wait"]
    /\ SetCS(Visit(CS, "R", robotsURL, 1, "probe", 1))
    /\ UNCHANGED <<cfgVars, idleVars, pcStart, pcMain, served>>

\* fetchOnce: child.OnResponse
RobotsResponse(q) ==
    /\ q \in reqs /\ q.req.col = "R" /\ q.stage = "fetch"
    /\ \E code \in {200, 201} :
          robots' = [robots EXCEPT !.ch = TRUE, !.ok = TRUE, !.code = code]
    /\ SetCS(Done(CS, q))
    /\ UNCHANGED <<cfgVars, idleVars, pcStart, pcMain, served>>

\* fetchOnce: child.OnError
RobotsError(q) ==
    /\ q \in reqs /\ q.req.col = "R" /\ q.stage = "fetch"
    /\ \E code \in ErrorStatusPool :
          robots' = [robots EXCEPT !.ch = TRUE, !.ok = FALSE, !.code = code]
    /\ SetCS(Done(CS, q))
    /\ UNCHANGED <<cfgVars, idleVars, pcStart, pcMain, served>>

\* ParseRobots: one "llow:" line
RobotsLine(s, line) ==
    LET u == FixUrl(site, line) IN
    Visit(emitLine(s, "robots", u, 0), "C", u, 1, "robots", 1)

RECURSIVE RobotsLines(_, _)
RobotsLines(s, lines) ==
    IF lines = <<>> THEN s
    ELSE RobotsLines(RobotsLine(s, Head(lines)), Tail(lines))

\* fetchOnce: child.Wait(); <-ch; then ParseRobots reads the lines of the
\* body that was received
RobotsReturn ==
    /\ robots.pc = "wait"
    /\ ~\E q \in reqs : q.req.col = "R"
    /\ robots.ch
    /\ robots' = [robots EXCEPT !.pc = "done", !.ch = FALSE]
    /\ \E body \in Bodies :
          /\ SetCS(IF robots.ok /\ robots.code = 200 /\ body # <<>>
                   THEN RobotsLines(CS, body) ELSE CS)
          /\ served' = served + Len(body)
    /\ UNCHANGED <<cfgVars, idleVars, pcStart, pcMain>>

(***************************************************************************)
(* The worker: siteWg.Wait, C.Wait, LinkFinderCollector.Wait, Close.       *)
(***************************************************************************)
SiteWgWait ==
    /\ pcMain = "siteWait"
    /\ pcStart = "done"
    /\ robots.pc \in {"off", "done"}
    /\ sitemap.pc \in {"off", "done"}
    /\ archive.pc \in {"off", "done"}
    /\ pcMain' = "cWait"
    /\ UNCHANGED <<cfgVars, idleVars, urlSet, jsSet, visited, reqs, robots, pcStart,
                   emitted, late, issued, refused, fresh, dropped, skipped, served,
                   answered>>

CWait ==
    /\ pcMain = "cWait"
    /\ ~\E q \in reqs : q.req.col = "C"
    /\ pcMain' = "lfWait"
    /\ UNCHANGED <<cfgVars, idleVars, urlSet, jsSet, visited, reqs, robots, pcStart,
                   emitted, late, issued, refused, fresh, dropped, skipped, served,
                   answered>>

LinkFinderWait ==
    /\ pcMain = "lfWait"
    /\ ~\E q \in reqs : q.req.col = "LF"
    /\ pcMain' = "close"
    /\ UNCHANGED <<cfgVars, idleVars, urlSet, jsSet, visited, reqs, robots, pcStart,
                   emitted, late, issued, refused, fresh, dropped, skipped, served,
                   answered>>

OutputClose ==
    /\ pcMain = "close"
    /\ pcMain' = "closed"
    /\ UNCHANGED <<cfgVars, idleVars, urlSet, jsSet, visited, reqs, robots, pcStart,
                   emitted, late, issued, refused, fresh, dropped, skipped, served,
                   answered>>

Next ==
    \/ StartCrawl
    \/ \E q \in reqs : CResponse(q)
    \/ \E q \in reqs : CError(q)
    \/ \E q \in reqs : CElementHref(q)
    \/ \E q \in reqs : CElementScript(q)
    \/ \E q \in reqs : CScraped(q)
    \/ \E q \in reqs : LFResponse(q)
    \/ \E q \in reqs : LFError(q)
    \/ RobotsVisit
    \/ \E q \in reqs : RobotsResponse(q)
    \/ \E q \in reqs : RobotsError(q)
    \/ RobotsReturn
    \/ SiteWgWait
    \/ CWait
    \/ LinkFinderWait
    \/ OutputClose

Spec == Init /\ [][Next]_vars

(***************************************************************************)
(* The renderer (StartRenderManager), under the render flag.  The crawl is *)
(* taken as the source of the responses whose pages are queued.            *)
(***************************************************************************)
\* render budgets that are tried: negative, 0, and up to MaxRenderBudget
MaxRenderBudget == 2

RenderBudgetPool == -1..MaxRenderBudget

\* "if budget <= 0 { budget = 6 }"
FallbackBudget == 6

\* a budget that lets one more page through
EffectiveBudgetPlusOne(b) == IF b <= 0 THEN FallbackBudget ELSE b + 1

\* StartRenderManager: the budget after defaulting
EffectiveBudget(b) == IF b <= 0 THEN FallbackBudget ELSE b

\* make(chan string, 64)
QueueCap == 64

\* the pages queued and not yet taken that the model follows
MaxQueue == 2

\* the pages the crawl gets small HTML responses for
RenderPagePool ==
    { MkURL(HA, "/x", ""), MkURL(HA, "/X", ""), MkURL(HA, "/p1", ""),
      MkURL(HA, "/p2", ""), MkURL(HA, "/p3", ""), MkURL(HA, "/p4", ""),
      MkURL(HA, "/p5", ""), MkURL(HB, "/x", "") }

\* the XHR and fetch requests a rendered page sends
XHRPool == { MkURL(HA, "/api", ""), MkURL(HB, "/api", "") }

InitRender ==
    /\ InitCrawl([target : {BareA}, subs : {FALSE}, depth : {DefaultDepth},
                  filter : {<<>>}, pool : {RefPool}, huge : {FALSE}])
    /\ renderBudget \in RenderBudgetPool
    /\ budget = EffectiveBudget(renderBudget)
    /\ queue = <<site>>
    /\ seenRender = {}
    /\ navigating = NoPage
    /\ rendered = 0
    /\ call = NoCall
    /\ ProducersOff

\* the OnResponse callback StartRenderManager adds to the primary
\* collector: a small HTML page is queued unless the queue is full
RenderOnResponse(u) ==
    /\ Len(queue) < MaxQueue
    /\ queue' = IF budget <= 0 \/ Len(queue) >= QueueCap THEN queue
                ELSE Append(queue, u)
    /\ queue' # queue
    /\ UNCHANGED <<cfgVars, renderBudget, budget, seenRender, navigating,
                   rendered, call, formVars, asideVars, urlSet, jsSet, visited, reqs, robots,
                   pcStart, pcMain, emitted, late, issued, refused, fresh,
                   dropped, skipped, served, answered>>

\* the render loop takes a page from the queue: skipped when seen or off
\* scope, else the render record is emitted and the browser navigates
RenderTake ==
    /\ budget > 0
    /\ navigating = NoPage
    /\ queue # <<>>
    /\ queue' = Tail(queue)
    /\ seenRender' = LoadOrStore(seenRender, Head(queue))
    /\ LET u == Head(queue)
           go == ~Duplicate(seenRender, u) /\ InScope(u, URLFilters)
       IN /\ SetCS(IF go THEN emitLine(CS, "render", u, 0) ELSE CS)
          /\ navigating' = IF go THEN u ELSE NoPage
          /\ rendered' = IF go THEN rendered + 1 ELSE rendered
    /\ UNCHANGED <<cfgVars, renderBudget, budget, call, formVars,
                   asideVars, robots, pcStart, pcMain, served>>

\* EventRequestWillBeSent of type XHR or Fetch while a page is rendered
RenderNetworkEvent(reqURL) ==
    /\ navigating # NoPage
    /\ SetCS(IF InScope(reqURL, URLFilters) /\ ~Duplicate(urlSet, reqURL)
             THEN emitLine(Visit(Observe(CS, "urlSet", reqURL), "C", reqURL,
                                 1, "network", 1),
                           "network", reqURL, 0)
             ELSE IF InScope(reqURL, URLFilters)
             THEN Observe(CS, "urlSet", reqURL)
             ELSE CS)
    /\ UNCHANGED <<cfgVars, renderBudget, renderVars, call, formVars,
                   asideVars, robots, pcStart, pcMain, served>>

\* the navigation ends (page ready, or the per-page timeout): budget--
RenderDone ==
    /\ navigating # NoPage
    /\ navigating' = NoPage
    /\ budget' = budget - 1
    /\ UNCHANGED <<cfgVars, renderBudget, queue, seenRender, rendered, call,
                   formVars, asideVars, urlSet, jsSet, visited, reqs, robots, pcStart, pcMain,
                   emitted, late, issued, refused, fresh, dropped, skipped, served,
                   answered>>

NextRender ==
    \/ \E u \in RenderPagePool : RenderOnResponse(u)
    \/ RenderTake
    \/ \E reqURL \in XHRPool : RenderNetworkEvent(reqURL)
    \/ RenderDone

SpecRender == InitRender /\ [][NextRender]_vars

(***************************************************************************)
(* canonicalizeURL on its own: applied to a parsed URL, and applied again  *)
(* to the URL its result parses into.                                      *)
(***************************************************************************)
\* hosts: a name, and IPv6 literals whose last group reads as a port or not
CanonHosts ==
    { [host |-> HA, ip6 |-> ""],
      [host |-> <<"", "", "1">>, ip6 |-> "bracketed"],
      [host |-> <<"", "", "443">>, ip6 |-> "bracketed"],
      [host |-> <<"", "", "db8">>, ip6 |-> "bracketed"] }

CanonPool ==
    { [scheme |-> sc, host |-> h.host, ip6 |-> h.ip6, port |-> po,
       path |-> pa, frag |-> fr] :
        sc \in {"http", "https"}, h \in CanonHosts,
        po \in {"", "80", "443", "8080"}, pa \in {"", "/", "/x"},
        fr \in {"", "f"} }

InitCanon ==
    /\ InitCrawl([target : {BareA}, subs : {FALSE}, depth : {DefaultDepth},
                  filter : {<<>>}, pool : {RefPool}, huge : {FALSE}])
    /\ RenderOff
    /\ ProducersOff
    /\ \E u \in CanonPool : call = [fn |-> "url.Parse", u |-> u]

\* the crawl and the renderer stand still
IdleCrawl ==
    UNCHANGED <<cfgVars, renderBudget, renderVars, formVars, asideVars,
                urlSet, jsSet, visited,
                reqs, robots, pcStart, pcMain, emitted, late, issued,
                refused, fresh, dropped, skipped, served, answered>>

\* canonicalizeURL(u)
Canonicalize ==
    /\ call.fn = "url.Parse"
    /\ call' = [fn |-> "canonicalizeURL", u |-> call.u,
                out |-> canonicalizeURL(call.u)]
    /\ IdleCrawl

\* abs, err := url.Parse(s); canonicalizeURL(abs), on a canonical string s
Recanonicalize ==
    /\ call.fn = "canonicalizeURL"
    /\ ParseURL(URLString(call.out)) # ParseError
    /\ call' = [fn |-> "again", u |-> call.u, out |-> call.out,
                out2 |-> canonicalizeURL(ParseURL(URLString(call.out)))]
    /\ IdleCrawl

NextCanon == Canonicalize \/ Recanonicalize

SpecCanon == InitCanon /\ [][NextCanon]_vars

(***************************************************************************)
(* A run with the filter-length flag given, against servers that also send *)
(* bodies over the soft cap.                                               *)
(***************************************************************************)
FilterRefPool == { MkURL(NoHost, "/x", ""), MkURL(NoHost, "/s.js", "") }

\* values of the filter-length flag that are tried: "0"
FilterPool == { <<0>> }

FilterConfigs ==
    [target : {BareA}, subs : {FALSE}, depth : {DefaultDepth},
     filter : FilterPool, pool : {FilterRefPool}, huge : {TRUE}]

InitFilter == InitWith(FilterConfigs)

SpecFilter == InitFilter /\ [][Next]_vars

(***************************************************************************)
(* A run against pages and scripts that carry noise tokens (a MIME type, a *)
(* date, a template, a route template, relative and absolute) and a static *)
(* asset.                                                                  *)
(***************************************************************************)
TokenPool ==
    { MkURL(NoHost, "/x", ""), MkURL(NoHost, "/s.js", ""),
      MkURL(NoHost, "/f.png", ""), MkURL(NoHost, "application/json", ""),
      MkURL(NoHost, "12/31/2025", ""), MkURL(NoHost, "/t/{{id}}", ""),
      MkURL(NoHost, "/t/:id", ""), MkURL(HA, "/t/:id", "") }

TokenConfigs ==
    [target : {BareA}, subs : {FALSE}, depth : {DefaultDepth},
     filter : {<<>>}, pool : {TokenPool}, huge : {FALSE}]

InitTokens == InitWith(TokenConfigs)

SpecTokens == InitTokens /\ [][Next]_vars

(***************************************************************************)
(* The emit filter on its own: built from the values of the types and the  *)
(* exclude-types flags, then asked about a kind.                           *)
(***************************************************************************)
\* entries of a flag value between its commas that are tried
MaxCSV == 2

\* the entries: empty, blank, and kinds in several spellings
CSVEntries == {"", " ", "url", "URL", " url", "href", " Href "}

\* strings.Split(csv, ","): at least one entry
CSVPool == UNION { [1..k -> CSVEntries] : k \in 1..MaxCSV }

\* the kinds emitLine is called with, and one in upper case
KindPool == {"url", "URL", "href", "javascript"}

InitEmit ==
    /\ InitCrawl([target : {BareA}, subs : {FALSE}, depth : {DefaultDepth},
                  filter : {<<>>}, pool : {RefPool}, huge : {FALSE}])
    /\ RenderOff
    /\ ProducersOff
    /\ \E inc \in CSVPool, exc \in CSVPool, k \in KindPool :
          call = [fn |-> "flags", include |-> inc, exclude |-> exc,
                  kind |-> k]

\* crawler.emit = NewEmitFilter(types, excludeTypes)
BuildEmitFilter ==
    /\ call.fn = "flags"
    /\ call' = [fn |-> "NewEmitFilter", include |-> call.include,
                exclude |-> call.exclude, kind |-> call.kind,
                f |-> NewEmitFilter(call.include, call.exclude)]
    /\ IdleCrawl

\* c.emit.OK(kind), as emitLine asks
AskEmitFilter ==
    /\ call.fn = "NewEmitFilter"
    /\ call' = [fn |-> "OK", include |-> call.include,
                exclude |-> call.exclude, kind |-> call.kind,
                f |-> call.f, ok |-> OK(call.f, call.kind)]
    /\ IdleCrawl

NextEmit == BuildEmitFilter \/ AskEmitFilter

SpecEmit == InitEmit /\ [][NextEmit]_vars

(***************************************************************************)
(* A run under the base flag: run() clears the js, robots and other-source *)
(* flags, so ParseRobots is not started and Start(false) does not call     *)
(* setupLinkFinder.                                                        *)
(***************************************************************************)
BaseConfigs ==
    [target : {BareA}, subs : {FALSE}, depth : 0..MaxDepthFlag,
     filter : {<<>>}, pool : {RefPool}, huge : {FALSE}]

InitBase ==
    /\ InitCrawlWith(BaseConfigs, RobotsOff)
    /\ RenderOff
    /\ call = NoCall
    /\ ProducersOff

\* a response to the JS sub-collector, which has no OnResponse callback
LFResponseBase(q) ==
    /\ q \in reqs /\ q.req.col = "LF" /\ q.stage = "fetch"
    /\ \E u \in FinalURLs(q), status \in OKStatusPool :
          SetCS(Done(Answer(CS, "LF", status, 0, u), q))
    /\ UNCHANGED <<cfgVars, idleVars, robots, pcStart, pcMain, served>>

NextBase ==
    \/ StartCrawl
    \/ \E q \in reqs : CResponse(q)
    \/ \E q \in reqs : CError(q)
    \/ \E q \in reqs : CElementHref(q)
    \/ \E q \in reqs : CElementScript(q)
    \/ \E q \in reqs : CScraped(q)
    \/ \E q \in reqs : LFResponseBase(q)
    \/ \E q \in reqs : LFError(q)
    \/ SiteWgWait
    \/ CWait
    \/ LinkFinderWait
    \/ OutputClose

SpecBase == InitBase /\ [][NextBase]_vars

(***************************************************************************)
(* The redirect policy of the HTTP client under the no-redirect flag.      *)
(***************************************************************************)
\* redirects the client follows in one request, as far as they are tried
MaxHops == 2

\* the Location headers a server may answer with
LocationPool ==
    { MkURL(h, p, "") : h \in {HA, HAPI, HV, HB}, p \in {"/", "/x"} }

\* client.CheckRedirect: whether the redirect to req is followed.  The
\* closure reads flagSubs when it is called, after the scope setup has run.
CheckRedirect(siteURL, scopeOverride, subsFlag, req) ==
    LET allowSubs == IF scopeOverride.set THEN scopeOverride.AllowSubs
                     ELSE EffectiveSubs(siteURL, scopeOverride, subsFlag)
    IN  \/ req.host = siteURL.host
        \/ allowSubs /\ IsSubdomainOf(req.host, siteURL.host)

InitRedirect ==
    /\ InitCrawl({ c \in Configs : c.depth = DefaultDepth })
    /\ RenderOff
    /\ ProducersOff
    /\ call = [fn |-> "http.Get", via |-> <<>>, req |-> site,
               followed |-> TRUE]

\* the server answers the request with a redirect; the client asks the policy
Redirect ==
    /\ call.fn \in {"http.Get", "CheckRedirect"}
    /\ call.followed
    /\ Len(call.via) < MaxHops
    /\ \E loc \in LocationPool :
          call' = [fn |-> "CheckRedirect", via |-> Append(call.via, call.req),
                   req |-> loc,
                   followed |-> CheckRedirect(site,
                                   normalizeTarget(target).scope, flagSubs,
                                   loc)]
    /\ IdleCrawl

NextRedirect == Redirect

SpecRedirect == InitRedirect /\ [][NextRedirect]_vars

(***************************************************************************)
(* The driver: run() feeds the targets to a pool of workers over a         *)
(* channel; each worker sets a crawler up for a target, crawls it and      *)
(* closes its output.                                                      *)
(***************************************************************************)
\* largest value of the threads flag that is tried
MaxThreads == 2
\* longest target list that is tried
MaxTargets == 3

\* a target the public-suffix list has no registrable domain for
BareLocalhost == [bare |-> TRUE, host |-> <<"localhost">>, path |-> ""]

\* the threads flag: negative, zero, and up to MaxThreads
ThreadsPool == -1..MaxThreads

\* siteList: each target with its place in the list
SiteLists ==
    { [k \in 1..Len(l) |-> [i |-> k, raw |-> l[k]]] :
        l \in SeqsUpTo({BareA, BareLocalhost}, MaxTargets) \ {<<>>} }

\* the crawl of the one target and the producers stand still
IdleRun ==
    UNCHANGED <<cfgVars, renderBudget, renderVars, formVars, call, sitemap,
                archive, urlSet, jsSet, visited,
                reqs, robots, pcStart, pcMain, emitted, late, issued,
                refused, fresh, dropped, skipped, served, answered>>

InitPool ==
    /\ InitCrawl([target : {BareA}, subs : {FALSE}, depth : {DefaultDepth},
                  filter : {<<>>}, pool : {RefPool}, huge : {FALSE}])
    /\ RenderOff
    /\ call = NoCall
    /\ sitemap = SitemapOff
    /\ archive = ArchiveOff
    /\ \E threads \in ThreadsPool, siteList \in SiteLists,
          output \in BOOLEAN :
          drv = [pc |-> "make", threads |-> threads, siteList |-> siteList,
                 output |-> output, inputChan |-> <<>>, closed |-> FALSE,
                 w |-> [k \in {} |-> 0],
                 crawls |-> [k \in 1..Len(siteList) |-> 0]]

Running == drv.pc \in {"feed", "wait"}

\* make(chan string, threads), and the loop starting the workers
MakeChan ==
    /\ drv.pc = "make"
    /\ drv' = IF drv.threads < 0
              THEN [drv EXCEPT !.pc = "panic"]
              ELSE [drv EXCEPT !.pc = "feed",
                               !.w = [k \in 1..drv.threads |->
                                        [pc |-> "range", t |-> 0]]]
    /\ IdleRun

\* inputChan <- s: there is room in the buffer (no worker exists to hand a
\* value to when the channel has no buffer)
Feed ==
    /\ drv.pc = "feed"
    /\ drv.siteList # <<>>
    /\ Len(drv.inputChan) < drv.threads
    /\ drv' = [drv EXCEPT !.inputChan = Append(@, Head(drv.siteList)),
                          !.siteList = Tail(@)]
    /\ IdleRun

\* close(inputChan)
CloseChan ==
    /\ drv.pc = "feed"
    /\ drv.siteList = <<>>
    /\ drv' = [drv EXCEPT !.pc = "wait", !.closed = TRUE]
    /\ IdleRun

\* for raw := range inputChan
WorkerRange(k) ==
    /\ Running
    /\ k \in DOMAIN drv.w /\ drv.w[k].pc = "range"
    /\ IF drv.inputChan # <<>>
       THEN drv' = [drv EXCEPT !.inputChan = Tail(@),
                               !.w[k] = [pc |-> "NewCrawler",
                                         t |-> Head(drv.inputChan)]]
       ELSE /\ drv.closed
            /\ drv' = [drv EXCEPT !.w[k] = [pc |-> "done", t |-> 0]]
    /\ IdleRun

\* normalizeTarget and NewCrawler: os.Exit(1) when the site has no domain
\* or, with an output folder given, when the output file cannot be opened
WorkerNewCrawler(k) ==
    /\ Running
    /\ k \in DOMAIN drv.w /\ drv.w[k].pc = "NewCrawler"
    /\ \E openFails \in {FALSE, drv.output} :
          IF \/ GetDomain(normalizeTarget(drv.w[k].t.raw).site.host) = NoHost
             \/ openFails
          THEN drv' = [drv EXCEPT !.pc = "exit"]
          ELSE drv' = [drv EXCEPT !.w[k].pc = "crawl",
                                  !.crawls[drv.w[k].t.i] = @ + 1]
    /\ IdleRun

\* the crawl of the target, up to Output.Close
WorkerCrawl(k) ==
    /\ Running
    /\ k \in DOMAIN drv.w /\ drv.w[k].pc = "crawl"
    /\ drv' = [drv EXCEPT !.w[k] = [pc |-> "range", t |-> 0]]
    /\ IdleRun

\* wg.Wait()
WgWait ==
    /\ drv.pc = "wait"
    /\ \A k \in DOMAIN drv.w : drv.w[k].pc = "done"
    /\ drv' = [drv EXCEPT !.pc = "done"]
    /\ IdleRun

NextPool ==
    \/ MakeChan
    \/ Feed
    \/ CloseChan
    \/ \E k \in 1..MaxThreads : WorkerRange(k)
    \/ \E k \in 1..MaxThreads : WorkerNewCrawler(k)
    \/ \E k \in 1..MaxThreads : WorkerCrawl(k)
    \/ WgWait

SpecPool == InitPool /\ [][NextPool]_vars

(***************************************************************************)
(* The other-source producer of a worker: OtherSources and the loop over   *)
(* what it returns.  A string an archive returns is the text of a URL with *)
(* the white space around it; the empty string is EmptyString.             *)
(***************************************************************************)
\* strings the four archives deliver for one target, all together
MaxArchive == 3

EmptyString == [url |-> NoPage, ws |-> ""]

ArchiveStrings ==
    { [url |-> MkURL(HA, "/x", ""), ws |-> ""],
      [url |-> MkURL(HA, "/x", ""), ws |-> " "],
      [url |-> MkURL(HB, "/x", ""), ws |-> ""],
      [url |-> NoPage, ws |-> " "],
      EmptyString }

\* strings.TrimSpace on a returned string
TrimURL(str) == [str EXCEPT !.ws = ""]

\* Unique: the loop over in, with the strings kept so far
RECURSIVE UniqueLoop(_, _)
UniqueLoop(in, out) ==
    IF in = <<>> THEN out
    ELSE UniqueLoop(Tail(in),
                    IF \E k \in 1..Len(out) : out[k] = Head(in) THEN out
                    ELSE Append(out, Head(in)))

\* Unique: the first occurrence of every string, in order
Unique(in) == UniqueLoop(in, <<>>)

\* an OtherSources that returns what arrives as it arrives
OtherSourcesAsArrived(arrived) ==
    SelectSeq(arrived, LAMBDA str : str # EmptyString)

\* OtherSources: what arrives on the out channel, r.url != "", made unique
OtherSources(arrived) ==
    Unique(SelectSeq(arrived, LAMBDA str : str # EmptyString))

\* the other-source goroutine is about to call OtherSources
ArchiveStart(include) ==
    [pc |-> "query", include |-> include, returned |-> <<>>, urls |-> <<>>,
     printed |-> <<>>, visits |-> <<>>]

\* what the producers leave alone
aloneVars == <<renderBudget, renderVars, call, formVars, drv>>

InitArchive ==
    /\ InitCrawlWith([target : {BareA}, subs : {FALSE},
                      depth : {DefaultDepth}, filter : {<<>>}, pool : {{}},
                      huge : {FALSE}], RobotsOff)
    /\ RenderOff
    /\ call = NoCall
    /\ sitemap = SitemapOff
    /\ drv = NoDriver
    /\ \E include \in BOOLEAN : archive = ArchiveStart(include)

\* urls := OtherSources(siteURL.Hostname(), includeSubs)
ArchiveQuery ==
    /\ archive.pc = "query"
    /\ \E arrived \in SeqsUpTo(ArchiveStrings, MaxArchive) :
          archive' = [archive EXCEPT !.pc = "loop", !.returned = arrived,
                                     !.urls = OtherSources(arrived)]
    /\ UNCHANGED <<cfgVars, aloneVars, sitemap, robots, pcStart, pcMain,
                   served, urlSet, jsSet, visited, reqs, emitted, late,
                   issued, refused, fresh, dropped, skipped, answered>>

\* one pass of the loop: TrimSpace, skip the empty, print, crawler.C.Visit(u)
ArchiveURL ==
    /\ archive.pc = "loop"
    /\ archive.urls # <<>>
    /\ LET u == TrimURL(Head(archive.urls)) IN
       IF u = EmptyString
       THEN /\ archive' = [archive EXCEPT !.urls = Tail(@)]
            /\ SetCS(CS)
       ELSE /\ archive' =
                 [archive EXCEPT !.urls = Tail(@),
                                 !.printed = IF archive.include
                                             THEN Append(@, u) ELSE @,
                                 !.visits = Append(@, u)]
            /\ SetCS(Visit(CS, "C", u.url, 1, "other-sources", 1))
    /\ UNCHANGED <<cfgVars, aloneVars, sitemap, robots, pcStart, pcMain,
                   served>>

\* the loop is over: siteWg.Done()
ArchiveDone ==
    /\ archive.pc = "loop"
    /\ archive.urls = <<>>
    /\ archive' = [archive EXCEPT !.pc = "done"]
    /\ UNCHANGED <<cfgVars, aloneVars, sitemap, robots, pcStart, pcMain,
                   served, urlSet, jsSet, visited, reqs, emitted, late,
                   issued, refused, fresh, dropped, skipped, answered>>

NextArchive ==
    \/ StartCrawl
    \/ \E q \in reqs : CResponse(q)
    \/ \E q \in reqs : CError(q)
    \/ \E q \in reqs : CScraped(q)
    \/ ArchiveQuery
    \/ ArchiveURL
    \/ ArchiveDone
    \/ SiteWgWait
    \/ CWait
    \/ LinkFinderWait
    \/ OutputClose

SpecArchive == InitArchive /\ [][NextArchive]_vars

(***************************************************************************)
(* A run on a seed that has a path.                                        *)
(***************************************************************************)
SeedPathPool ==
    { [bare |-> FALSE, host |-> HA, path |-> "/app"],
      [bare |-> FALSE, host |-> HA, path |-> "/"],
      [bare |-> TRUE, host |-> HA, path |-> "/app"] }

SeedPathConfigs ==
    [target : SeedPathPool \cup {BareA}, subs : {FALSE},
     depth : {DefaultDepth}, filter : {<<>>}, pool : {RefPool},
     huge : {FALSE}]

InitSeedPath == InitWith(SeedPathConfigs)

SpecSeedPath == InitSeedPath /\ [][Next]_vars

(***************************************************************************)
(* ParseSiteMap and its fetchOnce calls.  An XML body is what              *)
(* xml.Unmarshal makes of it: the loc entries of its url children (a       *)
(* urlset), of its sitemap children (a sitemapindex), or an error; a blank *)
(* loc is NoPage.                                                          *)
(***************************************************************************)
\* loc entries in one sitemap body
MaxLocs == 2

\* the probe paths that are tried, of the twelve of the source
sitemapUrls == <<"/sitemap.xml", "/sitemap_index.xml">>

\* the loc entries of a urlset, and those of a sitemapindex
UrlLocPool == { MkURL(HA, "/x", ""), MkURL(HB, "/x", ""), NoPage }

MapLocPool == { MkURL(HA, "/n.xml", ""), MkURL(HB, "/n.xml", ""), NoPage }

XMLBodies ==
    { [kind |-> "urlset", locs |-> l] : l \in SeqsUpTo(UrlLocPool, MaxLocs) }
        \cup { [kind |-> "sitemapindex", locs |-> l] :
                 l \in SeqsUpTo(MapLocPool, MaxLocs) \ {<<>>} }
        \cup { [kind |-> "malformed", locs |-> <<>>],
               [kind |-> "empty", locs |-> <<>>] }

\* ParseSiteMap is about to try its first path
SitemapStart ==
    [pc |-> "probe", paths |-> sitemapUrls, ch |-> FALSE, ok |-> FALSE,
     code |-> 0, maps |-> <<>>, tried |-> {}]

\* one url entry: TrimSpace, skip the blank, emitLine, c.Visit(loc)
SitemapLoc(s, loc) ==
    IF loc = NoPage THEN s
    ELSE Visit(emitLine(s, "sitemap", loc, 0), "C", loc, 1, "sitemap", 1)

RECURSIVE SitemapLocs(_, _)
SitemapLocs(s, locs) ==
    IF locs = <<>> THEN s
    ELSE SitemapLocs(SitemapLoc(s, Head(locs)), Tail(locs))

\* what fetchOnce hands back is dropped: err != nil || status != 200 ||
\* len(body) == 0
NoSitemap(body) == ~sitemap.ok \/ sitemap.code # 200 \/ body.kind = "empty"

InitSitemap ==
    /\ InitCrawlWith([target : {BareA}, subs : {FALSE},
                      depth : {DefaultDepth}, filter : {<<>>}, pool : {{}},
                      huge : {FALSE}], RobotsOff)
    /\ RenderOff
    /\ call = NoCall
    /\ archive = ArchiveOff
    /\ drv = NoDriver
    /\ sitemap = SitemapStart

\* fetchOnce(c, site.String() + p): child := parent.Clone(); child.Visit(u)
SitemapProbe ==
    /\ sitemap.pc = "probe"
    /\ sitemap.paths # <<>>
    /\ LET u == [site EXCEPT !.path = Concat(@, Head(sitemap.paths))] IN
       /\ sitemap' = [sitemap EXCEPT !.pc = "wait", !.paths = Tail(@),
                                     !.ch = FALSE, !.tried = @ \cup {u}]
       /\ SetCS(Visit(CS, "S", u, 1, "probe", 1))
    /\ UNCHANGED <<cfgVars, aloneVars, archive, robots, pcStart, pcMain,
                   served>>

\* fetchOnce: child.OnResponse
SitemapResponse(q) ==
    /\ q \in reqs /\ q.req.col = "S" /\ q.stage = "fetch"
    /\ \E code \in {200, 201} :
          sitemap' = [sitemap EXCEPT !.ch = TRUE, !.ok = TRUE, !.code = code]
    /\ SetCS(Done(CS, q))
    /\ UNCHANGED <<cfgVars, aloneVars, archive, robots, pcStart, pcMain,
                   served>>

\* fetchOnce: child.OnError
SitemapError(q) ==
    /\ q \in reqs /\ q.req.col = "S" /\ q.stage = "fetch"
    /\ \E code \in ErrorStatusPool :
          sitemap' = [sitemap EXCEPT !.ch = TRUE, !.ok = FALSE, !.code = code]
    /\ SetCS(Done(CS, q))
    /\ UNCHANGED <<cfgVars, aloneVars, archive, robots, pcStart, pcMain,
                   served>>

\* fetchOnce: child.Wait(); <-ch; then the body of a probe path is parsed
SitemapReturn ==
    /\ sitemap.pc = "wait"
    /\ ~\E q \in reqs : q.req.col = "S"
    /\ sitemap.ch
    /\ \E body \in XMLBodies :
          IF NoSitemap(body) \/ body.kind = "malformed" \/ body.locs = <<>>
          THEN /\ sitemap' = [sitemap EXCEPT !.pc = "probe", !.ch = FALSE]
               /\ SetCS(CS)
          ELSE IF body.kind = "urlset"
          THEN /\ sitemap' = [sitemap EXCEPT !.pc = "probe", !.ch = FALSE]
               /\ SetCS(SitemapLocs(CS, body.locs))
          ELSE /\ sitemap' = [sitemap EXCEPT !.pc = "nested", !.ch = FALSE,
                                             !.maps = body.locs]
               /\ SetCS(CS)
    /\ UNCHANGED <<cfgVars, aloneVars, archive, robots, pcStart, pcMain,
                   served>>

\* one sitemap entry of an index: TrimSpace, skip the blank, fetchOnce(c, loc)
SitemapNested ==
    /\ sitemap.pc = "nested"
    /\ IF sitemap.maps = <<>>
       THEN /\ sitemap' = [sitemap EXCEPT !.pc = "probe"]
            /\ SetCS(CS)
       ELSE IF Head(sitemap.maps) = NoPage
       THEN /\ sitemap' = [sitemap EXCEPT !.maps = Tail(@)]
            /\ SetCS(CS)
       ELSE /\ sitemap' = [sitemap EXCEPT !.pc = "nwait", !.maps = Tail(@),
                                          !.ch = FALSE]
            /\ SetCS(Visit(CS, "S", Head(sitemap.maps), 1, "nested", 1))
    /\ UNCHANGED <<cfgVars, aloneVars, archive, robots, pcStart, pcMain,
                   served>>

\* fetchOnce of a nested sitemap returns: only a urlset is read
SitemapNestedReturn ==
    /\ sitemap.pc = "nwait"
    /\ ~\E q \in reqs : q.req.col = "S"
    /\ sitemap.ch
    /\ sitemap' = [sitemap EXCEPT !.pc = "nested", !.ch = FALSE]
    /\ \E body \in XMLBodies :
          SetCS(IF ~NoSitemap(body) /\ body.kind = "urlset"
                THEN SitemapLocs(CS, body.locs) ELSE CS)
    /\ UNCHANGED <<cfgVars, aloneVars, archive, robots, pcStart, pcMain,
                   served>>

\* every path has been tried: wg.Done()
SitemapDone ==
    /\ sitemap.pc = "probe"
    /\ sitemap.paths = <<>>
    /\ sitemap' = [sitemap EXCEPT !.pc = "done"]
    /\ SetCS(CS)
    /\ UNCHANGED <<cfgVars, aloneVars, archive, robots, pcStart, pcMain,
                   served>>

NextSitemap ==
    \/ StartCrawl
    \/ \E q \in reqs : CResponse(q)
    \/ \E q \in reqs : CError(q)
    \/ \E q \in reqs : CScraped(q)
    \/ SitemapProbe
    \/ \E q \in reqs : SitemapResponse(q)
    \/ \E q \in reqs : SitemapError(q)
    \/ SitemapReturn
    \/ SitemapNested
    \/ SitemapNestedReturn
    \/ SitemapDone
    \/ SiteWgWait
    \/ CWait
    \/ LinkFinderWait
    \/ OutputClose

SpecSitemap == InitSitemap /\ [][NextSitemap]_vars

(***************************************************************************)
(* A run against bodies whose linkfinder tokens name one script and one    *)
(* page, each as a path and as an absolute URL.                            *)
(***************************************************************************)
RoutingPool ==
    { MkURL(NoHost, "/x", ""), MkURL(NoHost, "/s.js", ""),
      MkURL(HA, "/x", ""), MkURL(HA, "/s.js", "") }

RoutingConfigs ==
    [target : {BareA}, subs : {FALSE}, depth : {DefaultDepth},
     filter : {<<>>}, pool : {RoutingPool}, huge : {FALSE}]

InitRouting == InitWith(RoutingConfigs)

SpecRouting == InitRouting /\ [][Next]_vars

(***************************************************************************)
(* A run against pages with form and file-input elements.                  *)
(***************************************************************************)
\* form elements, and file inputs, on one page
MaxForms == 2

FormsPool == { MkURL(NoHost, "/x", ""), MkURL(NoHost, "/X", "f") }

InitForms ==
    /\ InitCrawlWith([target : {BareA}, subs : {FALSE},
                      depth : {DefaultDepth}, filter : {<<>>},
                      pool : {FormsPool}, huge : {FALSE}], RobotsOff)
    /\ RenderOff
    /\ call = NoCall
    /\ ProducersOff

\* the callbacks fired so far for elements of one kind on one page
Fired(kind, page) ==
    IF <<kind, page>> \in DOMAIN fired THEN fired[<<kind, page>>] ELSE 0

CountFired(kind, page) ==
    [k \in DOMAIN fired \cup {<<kind, page>>} |->
        IF k = <<kind, page>> THEN Fired(kind, page) + 1 ELSE fired[k]]

\* a form callback that prints for every element
OnHTMLFormEvery(s, set, formUrl) == emitLine(s, "form", formUrl, 0)

\* OnHTML, case "form": what is printed
OnHTMLForm(s, set, formUrl) ==
    IF Duplicate(set, formUrl) THEN s ELSE emitLine(s, "form", formUrl, 0)

\* OnHTML, case "input": what is printed
OnHTMLInput(s, set, uploadUrl) ==
    IF Duplicate(set, uploadUrl) THEN s
    ELSE emitLine(s, "upload-form", uploadUrl, 0)

\* one form[action] element of the page
CElementForm(q) ==
    /\ q \in reqs /\ q.stage = "html"
    /\ Fired("form", q.url) < MaxForms
    /\ SetCS(OnHTMLForm(CS, formSet, q.url))
    /\ formSet' = LoadOrStore(formSet, q.url)
    /\ fired' = CountFired("form", q.url)
    /\ UNCHANGED <<cfgVars, renderBudget, renderVars, call, asideVars,
                   uploadFormSet, robots, pcStart, pcMain, served>>

\* one input[type='file'] element of the page
CElementInput(q) ==
    /\ q \in reqs /\ q.stage = "html"
    /\ Fired("upload-form", q.url) < MaxForms
    /\ SetCS(OnHTMLInput(CS, uploadFormSet, q.url))
    /\ uploadFormSet' = LoadOrStore(uploadFormSet, q.url)
    /\ fired' = CountFired("upload-form", q.url)
    /\ UNCHANGED <<cfgVars, renderBudget, renderVars, call, asideVars,
                   formSet, robots, pcStart, pcMain, served>>

NextForms ==
    \/ StartCrawl
    \/ \E q \in reqs : CResponse(q)
    \/ \E q \in reqs : CError(q)
    \/ \E q \in reqs : CElementHref(q)
    \/ \E q \in reqs : CElementForm(q)
    \/ \E q \in reqs : CElementInput(q)
    \/ \E q \in reqs : CScraped(q)
    \/ SiteWgWait
    \/ CWait
    \/ LinkFinderWait
    \/ OutputClose

SpecForms == InitForms /\ [][NextForms]_vars

(***************************************************************************)
(* A run in which the responses carry a Content-Type header, against       *)
(* servers that also send bodies over the soft cap.                        *)
(***************************************************************************)
\* the Content-Type headers served; "" is a response without the header
ContentTypes == {"text/html", "application/xhtml+xml", "application/json", ""}

\* OnResponse: strings.Contains(ct, "text/html") ||
\* strings.Contains(ct, "application/xhtml") || ct == ""
LinkfinderType(ct) ==
    ct = "text/html" \/ ct = "application/xhtml+xml" \/ ct = ""

\* colly's OnHTML callbacks run when the Content-Type contains "html"
HTMLType(ct) == ct = "text/html" \/ ct = "application/xhtml+xml"

\* a collector's callback has been handed a response with this header
AnswerTyped(s, col, status, length, u, ct) ==
    [s EXCEPT !.answered = @ \cup
        {[col |-> col, url |-> u, status |-> status, length |-> length,
          ct |-> ct]}]

BodyConfigs ==
    [target : {BareA}, subs : {FALSE}, depth : {DefaultDepth},
     filter : {<<>>, <<0>>}, pool : {FilterRefPool}, huge : {TRUE}]

InitBody ==
    /\ InitCrawlWith(BodyConfigs, RobotsOff)
    /\ RenderOff
    /\ call = NoCall
    /\ ProducersOff

\* a response below 203 with its Content-Type: OnResponse, then the element
\* callbacks if the type is HTML
CResponseTyped(q) ==
    /\ q \in reqs /\ q.req.col = "C" /\ q.stage = "fetch"
    /\ \E u \in FinalURLs(q), ct \in ContentTypes, body \in ResponseBodies,
          status \in OKStatusPool :
          LET s0 == AnswerTyped(CS, "C", status, body.len, u, ct)
              s1 == OnResponse(s0, q.req, status, u, LinkfinderType(ct), body)
              s2 == Done(s1, q)
          IN /\ SetCS(IF HTMLType(ct)
                      THEN [s2 EXCEPT !.reqs = @ \cup
                               {[req |-> q.req, url |-> u, stage |-> "html"]}]
                      ELSE s2)
             /\ served' = served + Len(body.paths)
    /\ UNCHANGED <<cfgVars, idleVars, robots, pcStart, pcMain>>

NextBody ==
    \/ StartCrawl
    \/ \E q \in reqs : CResponseTyped(q)
    \/ \E q \in reqs : CError(q)
    \/ \E q \in reqs : CElementHref(q)
    \/ \E q \in reqs : CElementScript(q)
    \/ \E q \in reqs : CScraped(q)
    \/ \E q \in reqs : LFResponse(q)
    \/ \E q \in reqs : LFError(q)
    \/ SiteWgWait
    \/ CWait
    \/ LinkFinderWait
    \/ OutputClose

SpecBody == InitBody /\ [][NextBody]_vars

(***************************************************************************)
(* OtherSources as the goroutines it is: four fetchers that send what they *)
(* got on the out channel, the goroutine that closes it, and the loop that *)
(* reads it.                                                               *)
(***************************************************************************)
\* the buffer of the out channel as far as it is tried (256 in the source)
OutCap == 2

\* getWaybackURLs, getCommonCrawlURLs, getVirusTotalURLs, getOtxUrls
fetchFns == 1..4

ArchiveA == [url |-> MkURL(HA, "/x", ""), ws |-> ""]
ArchiveB == [url |-> MkURL(HB, "/x", ""), ws |-> ""]
ArchiveV == [url |-> MkURL(HV, "/x", ""), ws |-> ""]

\* what one fetchFn returns: more strings than the channel holds, with the
\* empty string and a repetition among them; or an error
FetchResults ==
    { [resp |-> <<>>, err |-> FALSE],
      [resp |-> <<ArchiveA, EmptyString, ArchiveB, ArchiveA>>, err |-> FALSE],
      [resp |-> <<ArchiveB>>, err |-> FALSE],
      [resp |-> <<ArchiveV>>, err |-> TRUE] }

\* a fetcher that sends every string on
ForwardedAll(resp) == resp

\* for _, r := range resp { if r.url != "" { out <- r } }
Forwarded(resp) == SelectSeq(resp, LAMBDA str : str # EmptyString)

InitFanIn ==
    /\ InitCrawlWith([target : {BareA}, subs : {FALSE},
                      depth : {DefaultDepth}, filter : {<<>>}, pool : {{}},
                      huge : {FALSE}], RobotsOff)
    /\ RenderOff
    /\ call = NoCall
    /\ sitemap = SitemapOff
    /\ drv = NoDriver
    /\ archive = [pc |-> "range",
                  src |-> [k \in fetchFns |->
                             [pc |-> "fetch", resp |-> <<>>, err |-> FALSE,
                              todo |-> <<>>]],
                  out |-> <<>>, closed |-> FALSE, urls |-> <<>>,
                  result |-> <<>>]

\* the crawl stands still while OtherSources runs
IdleFanIn ==
    UNCHANGED <<cfgVars, aloneVars, sitemap, robots, pcStart, pcMain,
                served, urlSet, jsSet, visited, reqs, emitted, late,
                issued, refused, fresh, dropped, skipped, answered>>

\* resp, err := fetch(domain, noSubs); on an error the goroutine returns
Fetch(k) ==
    /\ archive.src[k].pc = "fetch"
    /\ \E got \in FetchResults :
          archive' = [archive EXCEPT !.src[k] =
                        [pc |-> IF got.err THEN "done" ELSE "send",
                         resp |-> got.resp, err |-> got.err,
                         todo |-> IF got.err THEN <<>>
                                  ELSE Forwarded(got.resp)]]
    /\ IdleFanIn

\* out <- r, when the buffer has room
Send(k) ==
    /\ archive.src[k].pc = "send"
    /\ archive.src[k].todo # <<>>
    /\ Len(archive.out) < OutCap
    /\ archive' = [archive EXCEPT
                     !.out = Append(@, Head(archive.src[k].todo)),
                     !.src[k].todo = Tail(@)]
    /\ IdleFanIn

\* the range over resp is over: wg.Done()
FetcherDone(k) ==
    /\ archive.src[k].pc = "send"
    /\ archive.src[k].todo = <<>>
    /\ archive' = [archive EXCEPT !.src[k].pc = "done"]
    /\ IdleFanIn

\* go func() { wg.Wait(); close(out) }()
CloseOut ==
    /\ ~archive.closed
    /\ \A k \in fetchFns : archive.src[k].pc = "done"
    /\ archive' = [archive EXCEPT !.closed = TRUE]
    /\ IdleFanIn

\* for w := range out { urls = append(urls, w.url) }
Receive ==
    /\ archive.pc = "range"
    /\ archive.out # <<>>
    /\ archive' = [archive EXCEPT !.out = Tail(@),
                                  !.urls = Append(@, Head(archive.out))]
    /\ IdleFanIn

\* the channel is closed and drained: return Unique(urls)
ReturnUnique ==
    /\ archive.pc = "range"
    /\ archive.out = <<>>
    /\ archive.closed
    /\ archive' = [archive EXCEPT !.pc = "returned",
                                  !.result = Unique(archive.urls)]
    /\ IdleFanIn

NextFanIn ==
    \/ \E k \in fetchFns : Fetch(k)
    \/ \E k \in fetchFns : Send(k)
    \/ \E k \in fetchFns : FetcherDone(k)
    \/ CloseOut
    \/ Receive
    \/ ReturnUnique

SpecFanIn == InitFanIn /\ [][NextFanIn]_vars

(***************************************************************************)
(* getOtxUrls: the pages of the AlienVault url_list of a domain.           *)
(***************************************************************************)
\* maxPages := 10
maxPages == 10

\* what the request for one page comes to: a page with its has_next and its
\* url_list, or a failure of http.Get, of io.ReadAll or of json.Unmarshal
OtxPages ==
    [kind : {"page"}, hasNext : BOOLEAN,
     list : {<<>>, <<ArchiveA, EmptyString>>}]
        \cup [kind : {"http.Get", "io.ReadAll", "json.Unmarshal"},
              hasNext : {FALSE}, list : {<<>>}]

\* a loop condition without the page limit
PageLeftEver(page) == TRUE

\* for page < maxPages
PageLeft(page) == page < maxPages

InitOtx ==
    /\ InitCrawl([target : {BareA}, subs : {FALSE}, depth : {DefaultDepth},
                  filter : {<<>>}, pool : {RefPool}, huge : {FALSE}])
    /\ RenderOff
    /\ ProducersOff
    /\ call = [fn |-> "getOtxUrls", pc |-> "loop", page |-> 0,
               urls |-> <<>>, err |-> FALSE, got |-> <<>>]

\* one pass of the loop: the request for the page and what is done with it
OtxPage ==
    /\ call.fn = "getOtxUrls" /\ call.pc = "loop"
    /\ PageLeft(call.page)
    /\ \E p \in OtxPages :
          call' =
             IF p.kind # "page"
             THEN [call EXCEPT !.pc = "returned", !.urls = <<>>,
                               !.err = TRUE, !.got = Append(@, p)]
             ELSE [call EXCEPT
                     !.pc = IF p.hasNext THEN "loop" ELSE "returned",
                     !.page = IF p.hasNext THEN @ + 1 ELSE @,
                     !.urls = @ \o Forwarded(p.list),
                     !.got = Append(@, p)]
    /\ IdleCrawl

\* the loop condition fails: return urls, nil
OtxReturn ==
    /\ call.fn = "getOtxUrls" /\ call.pc = "loop"
    /\ ~PageLeft(call.page)
    /\ call' = [call EXCEPT !.pc = "returned"]
    /\ IdleCrawl

NextOtx == OtxPage \/ OtxReturn

SpecOtx == InitOtx /\ [][NextOtx]_vars

(***************************************************************************)
(* The OnRequest callbacks NewCrawler registers on the primary collector,  *)
(* run by colly in the order of their registration.  A header map gives    *)
(* each header its value, "" when the header is not set; a value names the *)
(* step that wrote it.                                                     *)
(***************************************************************************)
HeaderKeys ==
    {"Cookie", "Accept", "Accept-Language", "Upgrade-Insecure-Requests",
     "User-Agent", "Referer"}

DefaultedKeys == {"Accept", "Accept-Language", "Upgrade-Insecure-Requests"}

\* the request as colly hands it to the callbacks: User-Agent is c.UserAgent
NewRequestHeaders(ua) ==
    [k \in HeaderKeys |->
        IF k = "User-Agent"
        THEN (IF ua \in {"web", "mobi"} THEN "colly" ELSE "user-agent flag")
        ELSE ""]

\* the two callbacks of the burp file: Cookie from req.Cookies(), then every
\* header of the raw request
BurpHeaders(h, burp) ==
    IF ~burp.given THEN h
    ELSE [k \in HeaderKeys |->
            IF k \in burp.keys THEN "burp"
            ELSE IF k = "Cookie" THEN "" ELSE h[k]]

\* the callback of the cookie flag
CookieFlag(h, cookie) ==
    IF cookie THEN [h EXCEPT !["Cookie"] = "cookie flag"] ELSE h

\* the callbacks of the header flags
HeaderFlags(h, keys) ==
    [k \in HeaderKeys |-> IF k \in keys THEN "header flag" ELSE h[k]]

\* extensions.RandomUserAgent / RandomMobileUserAgent, then
\* extensions.Referer
UserAgentAndReferer(h, ua, referer) ==
    [k \in HeaderKeys |->
        IF k = "User-Agent" /\ ua \in {"web", "mobi"} THEN "random"
        ELSE IF k = "Referer" /\ referer THEN "referer"
        ELSE h[k]]

\* the callback that adds the browser headers
BrowserDefaults(h) ==
    [k \in HeaderKeys |->
        IF k \in DefaultedKeys /\ h[k] = "" THEN "default" ELSE h[k]]

\* all callbacks, in the order NewCrawler registers them
OnRequest(c) ==
    BrowserDefaults(
        UserAgentAndReferer(
            HeaderFlags(
                CookieFlag(BurpHeaders(NewRequestHeaders(c.ua), c.burp),
                           c.cookie),
                c.headers),
            c.ua, c.referer))

\* the flags of a run and whether the request has a parent page
RequestConfigs ==
    [burp : {[given |-> FALSE, keys |-> {}]}
              \cup [given : {TRUE},
                    keys : SUBSET {"Cookie", "Accept", "User-Agent"}],
     cookie : BOOLEAN,
     headers : SUBSET {"Cookie", "Accept", "User-Agent", "Referer"},
     ua : {"web", "mobi", "custom"},
     referer : BOOLEAN]

InitRequest ==
    /\ InitCrawl([target : {BareA}, subs : {FALSE}, depth : {DefaultDepth},
                  filter : {<<>>}, pool : {RefPool}, huge : {FALSE}])
    /\ RenderOff
    /\ ProducersOff
    /\ \E c \in RequestConfigs : call = [fn |-> "NewRequest", c |-> c]

\* colly runs the OnRequest callbacks on a request of the primary collector
HandleOnRequest ==
    /\ call.fn = "NewRequest"
    /\ call' = [fn |-> "OnRequest", c |-> call.c, hdr |-> OnRequest(call.c)]
    /\ IdleCrawl

NextRequest == HandleOnRequest

SpecRequest == InitRequest /\ [][NextRequest]_vars

(***************************************************************************)
(* The URL filters of the two collectors under the whitelist flags.        *)
(***************************************************************************)
NoWhitelist == [given |-> FALSE, pat |-> [host |-> NoHost, subs |-> FALSE]]

\* the whitelist-domain flag as a pattern: ^https?://D(?::\d+)?(?:/|$)
DomainPattern(d) == [host |-> d, subs |-> FALSE]

\* NewCrawler: c.URLFilters after the scope setup, the whitelist flags and
\* the default scope
PrimaryFilters(siteURL, scopeOverride, subsFlag, wl, wld) ==
    IF wld.given THEN {wld.pat}
    ELSE IF wl.given THEN {wl.pat}
    ELSE NewCrawlerFilters(siteURL, scopeOverride, subsFlag)

\* NewCrawler: linkFinderCollector.URLFilters
LinkFinderFilters(siteURL, scopeOverride, subsFlag, wl, wld) ==
    LET explicit == (IF wl.given THEN {wl.pat} ELSE {})
                       \cup (IF wld.given THEN {wld.pat} ELSE {})
    IN  IF explicit # {} THEN explicit
        ELSE IF scopeOverride.set
        THEN {[host |-> scopeOverride.Domain,
               subs |-> scopeOverride.AllowSubs]}
        ELSE PrimaryFilters(siteURL, scopeOverride, subsFlag, wl, wld)

WhitelistPool == {NoWhitelist, [given |-> TRUE, pat |-> DomainPattern(HB)]}

WhitelistDomainPool ==
    {NoWhitelist, [given |-> TRUE, pat |-> DomainPattern(HAPI)]}

ScopeURLPool ==
    { MkURL(HA, "/x", ""), MkURL(HAPI, "/x", ""), MkURL(HB, "/x", ""),
      MkURL(HV, "/x", "") }

InitScope ==
    /\ InitCrawl([target : {BareA, [bare |-> FALSE, host |-> HA, path |-> ""]},
                  subs : BOOLEAN, depth : {DefaultDepth},
                  filter : {<<>>}, pool : {RefPool}, huge : {FALSE}])
    /\ RenderOff
    /\ ProducersOff
    /\ \E wl \in WhitelistPool, wld \in WhitelistDomainPool :
          call = [fn |-> "NewCrawler", pc |-> "flags", wl |-> wl,
                  wld |-> wld, c |-> {}, lf |-> {}, checked |-> {}]

\* NewCrawler builds the filters of both collectors
NewCrawlerScope ==
    /\ call.fn = "NewCrawler"
    /\ call.pc = "flags"
    /\ LET so == normalizeTarget(target).scope
       IN  call' = [call EXCEPT
                      !.pc = "built",
                      !.c = PrimaryFilters(site, so, flagSubs,
                                           call.wl, call.wld),
                      !.lf = LinkFinderFilters(site, so, flagSubs,
                                               call.wl, call.wld)]
    /\ IdleCrawl

\* a scope check: the URLFilters step of a collector's requestCheck, or
\* InScope(u, crawler.C.URLFilters) in a callback
ScopeCheck(col, u) ==
    /\ call.fn = "NewCrawler"
    /\ call.pc = "built"
    /\ call' = [call EXCEPT
                  !.checked = @ \cup
                     {[col |-> col, url |-> u,
                       ok |-> InScope(u, IF col = "LF" THEN call.lf
                                         ELSE call.c)]}]
    /\ IdleCrawl

NextScope ==
    \/ NewCrawlerScope
    \/ \E col \in {"C", "LF"}, u \in ScopeURLPool : ScopeCheck(col, u)

SpecScope == InitScope /\ [][NextScope]_vars

(***************************************************************************)
(* The render queue at its full capacity: responses arrive while a page is *)
(* rendered, for one page again and again and for its variants.            *)
(***************************************************************************)
\* the page the crawl keeps getting small HTML responses for
QueuePage == MkURL(HA, "/x", "")

\* the same page under another case, and a page out of scope
QueueVariants == { MkURL(HA, "/X", ""), MkURL(HB, "/x", "") }

\* the variants that may wait in the queue at one time
MaxVariants == 1

Waiting(q) == Cardinality({k \in 1..Len(q) : q[k] \in QueueVariants})

\* a channel that takes every send
HasRoomAlways(q) == TRUE

\* "case queue <- ...": the send goes through when a slot is free
HasRoom(q) == Len(q) < QueueCap

InitQueue ==
    /\ InitCrawl([target : {BareA}, subs : {FALSE}, depth : {DefaultDepth},
                  filter : {<<>>}, pool : {RefPool}, huge : {FALSE}])
    /\ renderBudget \in 1..MaxRenderBudget
    /\ budget = EffectiveBudget(renderBudget)
    /\ queue = <<site>>
    /\ seenRender = {}
    /\ navigating = NoPage
    /\ rendered = 0
    /\ call = NoCall
    /\ ProducersOff

\* the OnResponse callback of StartRenderManager on a small HTML response:
\* returns at once without budget, else sends or, the queue full, skips
RenderEnqueue(u) ==
    /\ queue' = IF budget > 0 /\ HasRoom(queue) THEN Append(queue, u)
                ELSE queue
    /\ call' = [fn |-> "OnResponse", budget |-> budget > 0,
                room |-> Len(queue) < QueueCap]
    /\ UNCHANGED <<cfgVars, renderBudget, budget, seenRender, navigating,
                   rendered, formVars, asideVars, urlSet, jsSet, visited,
                   reqs, robots, pcStart, pcMain, emitted, late, issued,
                   refused, fresh, dropped, skipped, served, answered>>

\* the responses that may arrive next
Arrivals ==
    {QueuePage} \cup
       (IF Waiting(queue) < MaxVariants THEN QueueVariants ELSE {})

NextQueue ==
    \/ \E u \in Arrivals : RenderEnqueue(u)
    \/ RenderTake
    \/ RenderDone

SpecQueue == InitQueue /\ [][NextQueue]_vars

(***************************************************************************)
(* Every place that writes a line to stdout or to the output file: the     *)
(* emitLine calls, the other-source loop of run(), and the raw body of a   *)
(* response.                                                               *)
(***************************************************************************)
\* the kinds emitLine is called with in a crawl
LineKinds == {"url", "href", "raw"}

\* the values of the types and exclude-types flags that are tried
TypesPool == { EmptyCSV, <<"url">>, <<"url", "raw">>, <<"other-sources">> }

ExcludeTypesPool == { EmptyCSV, <<"raw">>, <<"other-sources">> }

NoLines == [stdout |-> {}, file |-> {}]

\* fmt.Println(line), and Output.WriteToFile(line) when there is a file
WriteLine(w, hasFile, line) ==
    [stdout |-> w.stdout \cup {line},
     file |-> IF hasFile THEN w.file \cup {line} ELSE w.file]

\* Output.WriteToFile(line) alone
WriteToFile(w, line) == [w EXCEPT !.file = @ \cup {line}]

InitWritten ==
    /\ InitCrawl([target : {BareA}, subs : {FALSE}, depth : {DefaultDepth},
                  filter : {<<>>}, pool : {RefPool}, huge : {FALSE}])
    /\ RenderOff
    /\ ProducersOff
    /\ \E inc \in TypesPool, exc \in ExcludeTypesPool,
          quiet \in BOOLEAN, hasFile \in BOOLEAN, include \in BOOLEAN :
          call = [fn |-> "run", f |-> NewEmitFilter(inc, exc),
                  Quiet |-> quiet, Output |-> hasFile,
                  includeOtherSourceResult |-> include, w |-> NoLines]

\* Crawler.emitLine(kind, line), for the kinds other than raw
EmitLineCall(kind) ==
    /\ call.fn = "run"
    /\ call' = [call EXCEPT
                  !.w = IF OK(call.f, kind)
                        THEN WriteLine(@, call.Output,
                                       [kind |-> kind, by |-> "emitLine"])
                        ELSE @]
    /\ call' # call
    /\ IdleCrawl

\* run(): a URL of the other sources is printed
OtherSourceLine ==
    /\ call.fn = "run"
    /\ call' = [call EXCEPT
                  !.w = IF call.includeOtherSourceResult
                        THEN WriteLine(@, call.Output,
                                       [kind |-> "other-sources",
                                        by |-> "run"])
                        ELSE @]
    /\ call' # call
    /\ IdleCrawl

\* OnResponse under the raw flag: the body goes through emitLine, or in
\* quiet mode straight to the output file
RawLine ==
    /\ call.fn = "run"
    /\ call' = [call EXCEPT
                  !.w = IF ~call.Quiet
                        THEN (IF OK(call.f, "raw")
                              THEN WriteLine(@, call.Output,
                                             [kind |-> "raw",
                                              by |-> "emitLine"])
                              ELSE @)
                        ELSE IF call.Output
                        THEN WriteToFile(@, [kind |-> "raw",
                                             by |-> "OnResponse"])
                        ELSE @]
    /\ call' # call
    /\ IdleCrawl

NextWritten ==
    \/ \E kind \in LineKinds \ {"raw"} : EmitLineCall(kind)
    \/ OtherSourceLine
    \/ RawLine

SpecWritten == InitWritten /\ [][NextWritten]_vars

(***************************************************************************)
(* The kind an emitter hands to emitLine and the kind its line shows: the  *)
(* bracket label of a plain line, the type field of a structured one; a    *)
(* quiet line shows none.                                                  *)
(***************************************************************************)
NoLabel == [field |-> "none", text |-> ""]

\* the line an emitter builds: the JSON record under JsonOutput, else the
\* bare value under Quiet, else "[label] - value"
Shown(c, label, type) ==
    IF c.JsonOutput THEN [field |-> "type", text |-> type]
    ELSE IF c.Quiet THEN NoLabel
    ELSE [field |-> "label", text |-> label]

\* the types flag as tried with these emitters
KindTypesPool == { EmptyCSV, <<"javascript">>, <<"robots">>, <<"aws">> }

InitKinds ==
    /\ InitCrawl([target : {BareA}, subs : {FALSE}, depth : {DefaultDepth},
                  filter : {<<>>}, pool : {RefPool}, huge : {FALSE}])
    /\ RenderOff
    /\ ProducersOff
    /\ \E inc \in KindTypesPool, json \in BOOLEAN, quiet \in BOOLEAN :
          call = [fn |-> "emit", f |-> NewEmitFilter(inc, EmptyCSV),
                  JsonOutput |-> json, Quiet |-> quiet, lines |-> {}]

\* emitLine(kind, line), the line kept with the kind it was filtered under
Emitted(kind, shown) ==
    /\ call.fn = "emit"
    /\ OK(call.f, kind)
    /\ call' = [call EXCEPT !.lines = @ \cup {[kind |-> kind,
                                               shown |-> shown]}]
    /\ call' # call
    /\ IdleCrawl

\* Crawler.feedLinkfinder(jsFileUrl, OutputType, source)
FeedLinkfinderLine(OutputType) ==
    Emitted("javascript", Shown(call, OutputType, OutputType))

\* ParseRobots: one Allow / Disallow line
ParseRobotsLine == Emitted("robots", Shown(call, "robots", "url"))

\* Crawler.findSubdomains
FindSubdomainsLine ==
    Emitted("subdomains", Shown(call, "subdomains", "subdomain"))

\* Crawler.findAWSS3
FindAWSS3Line == Emitted("aws", Shown(call, "aws-s3", "aws"))

NextKinds ==
    \/ \E OutputType \in {"javascript", "linkfinder"} :
          FeedLinkfinderLine(OutputType)
    \/ ParseRobotsLine
    \/ FindSubdomainsLine
    \/ FindAWSS3Line

SpecKinds == InitKinds /\ [][NextKinds]_vars


(***************************************************************************)
(* Properties.                                                             *)
(***************************************************************************)
\* the apex (eTLD+1) of the target
TargetApex == GetDomain(target.host)

UnderApex(h) == h = TargetApex \/ IsSubdomainOf(h, TargetApex)

\* C1. Scope soundness: every record emitted with kind url, href,
\* linkfinder or network has an output URL that matches a pattern of the
\* primary collector's URLFilters.
C1_ScopeSoundness ==
    \A e \in emitted :
        e.kind \in {"url", "href", "linkfinder", "network"}
            => InScope(e.out, URLFilters)

\* C2. Dedup: for every canonical URL, at most one fetch is issued, the
\* primary collector, the JS sub-collector and the probes counted together.
C2_Dedup ==
    \A r1, r2 \in issued :
        canonicalizeURL(r1.url) = canonicalizeURL(r2.url) => r1 = r2

\* C3. Deduper atomicity: of the Duplicate calls on one filter whose keys
\* are equal after lowercasing exactly one returned false, and every string
\* that was presented is reported as a duplicate from then on.
C3_DeduperAtomicity ==
    \A k \in DOMAIN fresh :
        /\ fresh[k].n = 1
        /\ \A u \in fresh[k].raw : Duplicate(CS[k[1]], u)

\* C3 witness: two case variants of one key were presented to one filter.
C3_Witness ==
    \E k \in DOMAIN fresh :
        /\ fresh[k].n = 1
        /\ \E u1, u2 \in fresh[k].raw : u1 # u2

\* C4. Termination: a target run that has not closed its output can always
\* take a further step, so that, every request being answered, it reaches
\* the point where the output is closed.
C4_RunReachesClose == pcMain = "closed" \/ ENABLED Next

\* C5. Close only after quiescence: when the output is closed no collector
\* has a pending or in-flight fetch, no producer is running, and no record
\* is emitted after the close.
C5_CloseAfterQuiescence ==
    pcMain = "closed" =>
        /\ reqs = {}
        /\ pcStart = "done"
        /\ robots.pc = "done"
        /\ late = {}

\* C6. Depth bound: with the seed at depth 0 and every URL discovered from
\* a page at depth d at depth d+1, the primary collector fetches no URL
\* whose depth exceeds a max depth greater than 0.
C6_DepthBound ==
    maxDepth > 0 =>
        \A r \in issued :
            (r.col = "C" /\ r.via \in {"seed", "href", "linkfinder"})
                => r.dd <= maxDepth

\* C7. Unbounded depth: with max depth 0 no Visit is refused for its depth,
\* and every href the callback let through (in scope, not disallowed, not
\* seen before) has a fetch issued for it.
C7_UnboundedDepth ==
    maxDepth = 0 =>
        /\ refused = {}
        /\ \A e \in emitted :
               e.kind = "href" => \E r \in issued : r.url = e.out

\* C7 witness: with max depth 0, a fetch two hrefs away from the seed.
C7_Witness ==
    /\ maxDepth = 0
    /\ \E r \in issued : r.via = "href" /\ r.dd = 2 /\ r.depth = 3

\* the fetches of the HTML crawl are the seed's alone, to https://a.test/
OnlySeedFetched ==
    \A r \in issued :
        r.via \in {"seed", "href"}
            => r.via = "seed" /\ canonicalizeURL(r.url) = MkURL(HA, "/", "")

\* C8, as claimed. Scenario depth=0: for the bare seed a.test the HTML
\* crawl issues exactly one fetch, to https://a.test/, and enqueues none of
\* the hrefs of that page.
C8_DepthZeroScenario == (target = BareA /\ maxDepth = 0) => OnlySeedFetched

\* C8, amended. The scenario holds for depth=1: the HTML crawl issues
\* exactly one fetch, to https://a.test/, and every href it emits is
\* refused for its depth.
C8_DepthOneScenario ==
    (target = BareA /\ maxDepth = 1) =>
        /\ OnlySeedFetched
        /\ \A e \in emitted :
               e.kind = "href" => \E x \in refused : x.url = e.out

\* C8 witness: depth=1, the seed page fetched and an href of it emitted.
C8_Witness ==
    /\ target = BareA /\ maxDepth = 1
    /\ \E r \in issued : r.via = "seed"
    /\ \E e \in emitted : e.kind = "href"

\* C9. Bare-domain auto-scope: for a bare-domain target the host of every
\* emitted URL, of any kind, is the apex of the target or a subdomain of it.
C9_BareDomainAutoScope ==
    target.bare => \A e \in emitted : UnderApex(e.out.host)

\* no href or linkfinder record and no fetch is on a host other than the
\* seed's
ExactHostOnly ==
    /\ \A e \in emitted :
           e.kind \in {"href", "linkfinder"} => e.out.host = site.host
    /\ \A r \in issued : r.url.host = site.host

C11_BodyLengthFilter ==
    \A e \in emitted :
        e.kind = "url" => ~contains(filterLengthSlice, e.length)

\* the render records emitted so far (the deduper lets a URL through once)
RenderEmissions == Cardinality({ e \in emitted : e.kind = "render" })

\* C12, as claimed. Render budget: for every configured renderBudget, 0 and
\* negative values included, the number of render emissions and of rendered
\* pages never exceeds renderBudget (nothing is rendered under a budget of
\* 0 or less).
C12_RenderBudget ==
    LET limit == IF renderBudget > 0 THEN renderBudget ELSE 0
    IN RenderEmissions <= limit /\ rendered <= limit

\* C12, amended. The number of render emissions and of rendered pages never
\* exceeds a renderBudget greater than 0; for a renderBudget of 0 or less
\* it never exceeds the fallback budget of 6.
C12_RenderBudgetDefaulted ==
    LET limit == IF renderBudget > 0 THEN renderBudget ELSE FallbackBudget
    IN RenderEmissions <= limit /\ rendered <= limit

\* C12 witness: with a renderBudget of 0 the fallback budget is used up
\* while a page is still queued.
C12_Witness ==
    /\ renderBudget = 0
    /\ rendered = FallbackBudget /\ RenderEmissions = FallbackBudget
    /\ budget = 0
    /\ queue # <<>>

\* the statuses the error handling suppresses
SuppressedStatus(status) ==
    status = 404 \/ status = 429 \/ status < 100 \/ status >= 500

\* C13. Uniform status suppression: on every response path of both
\* collectors no url record has a status of 404, 429, below 100 or 500 and
\* above, and a response with any other non-2xx status, its body length not
\* filtered, has a url record.
C13_UniformStatusSuppression ==
    /\ \A e \in emitted : e.kind = "url" => ~SuppressedStatus(e.status)
    /\ \A a \in answered :
           (/\ ~SuppressedStatus(a.status)
            /\ a.status \notin 200..299
            /\ ~contains(filterLengthSlice, a.length))
               => \E e \in emitted :
                      e.kind = "url" /\ e.out = a.url /\ e.status = a.status

\* C14. JS asset visibility: every asset URL passed to feedLinkfinder for
\* the first time has exactly one javascript record, in scope or not; the
\* JS sub-collector is asked to fetch only in-scope URLs, and no request is
\* issued for an out-of-scope asset.
C14_JSAssetVisibility ==
    /\ \A k \in DOMAIN fresh :
           k[1] = "jsSet" =>
               /\ fresh[k].n = 1
               /\ \E u \in fresh[k].raw : \E e \in emitted :
                      e.kind = "javascript" /\ e.out = canonicalizeURL(u)
    /\ \A e \in emitted :
           e.kind = "javascript" =>
               /\ "javascript" \notin e.prior
               /\ ~InScope(e.out, URLFilters)
                      => \A r \in issued : r.url # e.out
    /\ \A r \in issued : r.col = "LF" => InScope(r.url, URLFilters)

\* C14 witness: an out-of-scope asset has its javascript record, and the JS
\* sub-collector has been asked for an in-scope one.
C14_Witness ==
    /\ \E e \in emitted : e.kind = "javascript" /\ ~InScope(e.out, URLFilters)
    /\ \E r \in issued :
           /\ r.col = "LF"
           /\ \E e \in emitted : e.kind = "javascript" /\ e.out = r.url

\* C15. Canonical idempotence: the canonical form of a parseable URL is a
\* URL without fragment, without the default port of its scheme and with a
\* non-empty path, and canonicalizing it returns that same canonical form.
C15_CanonicalIdempotence ==
    /\ call.fn \in {"canonicalizeURL", "again"} =>
           LET c == ParseURL(URLString(call.out)) IN
           /\ c # ParseError
           /\ c.frag = ""
           /\ ~DefaultPort(c)
           /\ c.path # ""
    /\ call.fn = "again" => URLString(call.out2) = URLString(call.out)

\* the URLs that, in the pool, only noise tokens resolve to
NoiseURL(u) ==
    u.path \in {"/application/json", "/12/31/2025", "/t/{{id}}", "/t/:id"}

\* C16. Noise rejection: no linkfinder record and no request enqueued by a
\* linkfinder loop comes from a token that matches the MIME-type pattern or
\* the date pattern, or contains {{, }} or /:, whether the token was found
\* in an HTML body or in a JS body, and whether it is absolute or relative.
C16_NoiseRejection ==
    /\ \A e \in emitted : e.kind = "linkfinder" => ~NoiseURL(e.out)
    /\ \A r \in issued : r.via = "linkfinder" => ~NoiseURL(r.url)
    /\ \A k \in skipped :
           /\ ~\E e \in emitted :
                  /\ e.kind \in {"linkfinder", "javascript"}
                  /\ e.out = canonicalizeURL(FixUrl(k.base, k.tok))
           /\ ~\E r \in issued :
                  /\ r.via = "linkfinder"
                  /\ r.url = canonicalizeURL(FixUrl(k.base, k.tok))

\* C16 witness: the body of a script that a linkfinder token of an HTML
\* body led to carried an absolute route template, which was skipped.
C16_Witness ==
    \E k \in skipped :
        /\ k.base.path = "/s.js"
        /\ isAbsoluteURL(k.tok)
        /\ \E r \in issued : r.col = "LF" /\ r.via = "linkfinder"

\* C17. Static-asset drop: for a URL with a disallowed extension (/f.png)
\* that a fetched in-scope HTML page refers to, no record is emitted by the
\* href callback or by the linkfinder over the HTML body, and no request is
\* issued.
C17_StaticAssetDrop ==
    /\ \A e \in emitted :
           e.kind \in {"href", "linkfinder"} => ~DisallowedExtMatch(e.out)
    /\ \A r \in issued : ~DisallowedExtMatch(r.url)

\* a URL string without its fragment and without the default port of its
\* scheme
StripFragmentAndDefaultPort(u) ==
    [u EXCEPT !.frag = "", !.port = IF DefaultPort(u) THEN "" ELSE @]

\* C18. One url record per canonical URL: of the URL strings discovered in a
\* target run that differ only in fragment and in the presence of the
\* default port, at most one is fetched, once, and at most one url record is
\* emitted for them in total.
C18_OneUrlRecordPerCanonicalURL ==
    /\ \A r1, r2 \in issued :
           (/\ r1.col # "R" /\ r2.col # "R"
            /\ StripFragmentAndDefaultPort(r1.url)
                   = StripFragmentAndDefaultPort(r2.url)) => r1 = r2
    /\ \A e1, e2 \in emitted :
           (/\ e1.kind = "url" /\ e2.kind = "url"
            /\ StripFragmentAndDefaultPort(e1.out)
                   = StripFragmentAndDefaultPort(e2.out)) => e1.out = e2.out

\* C19. Emission order for one URL: an href record for a URL u is emitted
\* before the url record for u, also when u was first fetched through
\* another producer (seed, robots) and found as an href later.  (That the
\* url record of a response comes before the linkfinder records of its body
\* is the order of the statements of the response handlers, OnResponse and
\* LinkFinderOnResponse.)
C19_EmissionOrder ==
    \A e \in emitted : e.kind = "href" => "url" \notin e.prior

\* the spellings of one kind: upper and lower case, surrounding whitespace
Spellings(k) ==
    CASE k = "url" -> {"url", "URL", " url"}
      [] k = "href" -> {"href", " Href "}
      [] OTHER -> {k}

\* the strings a and b spell the same kind
SameKind(a, b) ==
    \E k \in {"url", "href", "javascript"} :
        a \in Spellings(k) /\ b \in Spellings(k)

\* the kind is in the list
Listed(kind, csv) == \E i \in 1..Len(csv) : SameKind(csv[i], kind)

\* the list names no kind
EmptyList(csv) == \A i \in 1..Len(csv) : csv[i] \in {"", " "}

\* C20. Emit filter: for every kind k and every pair of include and exclude
\* lists, a record of kind k is let through iff k is not in the exclude
\* list and the include list is empty or holds k; kinds are compared without
\* regard to case, and whitespace around a list entry is ignored.
C20_EmitFilter ==
    call.fn = "OK" =>
        (call.ok <=>
            /\ ~Listed(call.kind, call.exclude)
            /\ EmptyList(call.include) \/ Listed(call.kind, call.include))

\* C21. Fetch precondition: every URL a collector issues a request on, the
\* robots.txt probe apart, is in canonical form, matches the scope and does
\* not match the disallowed-extension pattern; this covers the seed visit
\* and the URLs the robots producer enqueues.
C21_FetchPrecondition ==
    \A r \in issued :
        r.col # "R" =>
            /\ canonicalizeURL(r.url) = r.url
            /\ InScope(r.url, URLFilters)
            /\ ~DisallowedExtMatch(r.url)

\* C22. Base mode: with the base option set no robots.txt probe and no
\* sitemap probe is made, linkfinder runs on no response body, JS or HTML,
\* and only the crawling of HTML elements produces records.
C22_BaseMode ==
    /\ \A r \in issued : r.col \in {"C", "LF"} /\ r.via # "linkfinder"
    /\ \A e \in emitted :
           e.kind \in {"url", "href", "javascript", "form", "upload-form"}

\* C23. Off-scope redirect blocking: with the no-redirect option set, a
\* redirect is followed if and only if the host it leads to is within the
\* active scope; for a bare-domain target whose seed host is a subdomain of
\* its apex, a redirect to another subdomain in scope is followed.
C23_RedirectFollowsScope ==
    call.fn = "CheckRedirect" =>
        (call.followed <=> InScope(call.req, URLFilters))

\* the workers crawling a target right now
Crawling == { k \in DOMAIN drv.w : drv.w[k].pc = "crawl" }

\* C24. Worker pool: for any non-empty target list and any threads value at
\* most threads targets are crawled at once, every target is crawled by
\* exactly one worker exactly once, and the driver terminates: feeding the
\* targets never blocks forever.
C24_WorkerPool ==
    /\ Cardinality(Crawling) <= drv.threads \/ Crawling = {}
    /\ \A i \in DOMAIN drv.crawls : drv.crawls[i] <= 1
    /\ drv.pc = "done" => \A i \in DOMAIN drv.crawls : drv.crawls[i] = 1
    /\ drv.pc = "done" \/ ENABLED NextPool

\* C25. No abort after start: no error of any class, an unparsable seed or
\* an output-file failure met by another worker setting its own target up
\* included, stops a crawl that has started before its work is processed and
\* its output closed.
C25_NoAbortAfterStart ==
    drv.pc \in {"exit", "panic"} => Crawling = {}

\* how often x stands in the sequence q
Times(q, x) == Cardinality({ k \in 1..Len(q) : q[k] = x })

\* the strings of a sequence
Range(q) == { q[k] : k \in 1..Len(q) }

\* the URLs the archives returned: the returned strings without the white
\* space around them, the blank ones left out
ReturnedURLs == { TrimURL(str) : str \in Range(archive.returned) } \
                    {EmptyString}

\* C26 as stated. Archive results: every non-empty URL the archive enrichers
\* return is passed to the primary collector's enqueue exactly once, and is
\* printed iff the include-other-source option is set.
C26_ArchiveOncePerURL ==
    archive.pc = "done" =>
        \A u \in ReturnedURLs :
            /\ Times(archive.visits, u) = 1
            /\ Times(archive.printed, u) = IF archive.include THEN 1 ELSE 0

\* C26, amended. Every distinct string the archive enrichers return that is
\* not blank is passed, trimmed, to the primary collector's Visit exactly
\* once, so a URL is passed once for every spelling of it that differs in
\* surrounding white space; each pass is printed iff the include-other-source
\* option is set, and nothing else is printed by the producer.
C26_ArchiveOncePerString ==
    archive.pc = "done" =>
        /\ \A u \in ReturnedURLs :
              /\ Times(archive.visits, u) =
                    Cardinality({ str \in Range(archive.returned) :
                                    TrimURL(str) = u })
              /\ Times(archive.printed, u) =
                    IF archive.include THEN Times(archive.visits, u) ELSE 0
        /\ Range(archive.visits) = ReturnedURLs
        /\ Range(archive.printed) \subseteq ReturnedURLs

\* one URL came back from two archives and a blank string with it; the run
\* printed it
C26_Witness ==
    /\ archive.pc = "done"
    /\ archive.include
    /\ Len(archive.returned) = 3
    /\ Times(archive.returned, [url |-> MkURL(HA, "/x", ""), ws |-> ""]) = 2
    /\ Times(archive.returned, [url |-> NoPage, ws |-> " "]) = 1
    /\ \E r \in issued : r.via = "other-sources"

\* the seed's origin with the path /robots.txt
OriginRobots == [site EXCEPT !.path = "/robots.txt", !.frag = ""]

\* C27. Robots probe: exactly one request is made for robots.txt, at the
\* seed's origin followed by /robots.txt, also when the seed has a path or
\* ends in a slash, and only if that URL is in scope; every robots record
\* comes from a line of the body, resolved against the seed.
C27_RobotsProbe ==
    /\ Cardinality({ r \in issued : r.col = "R" }) <= 1
    /\ \A r \in issued :
          r.col = "R" => r.url = OriginRobots /\ InScope(r.url, URLFilters)
    /\ robots.pc \in {"wait", "done"} =>
          ({ r \in issued : r.col = "R" } # {}
              <=> InScope(OriginRobots, URLFilters))
    /\ \A e \in emitted :
          e.kind = "robots" => \E line \in pool : e.out = FixUrl(site, line)

\* fetchOnce waits on its channel, and no request of its clone is left that
\* could signal it
SitemapStuck ==
    /\ sitemap.pc \in {"wait", "nwait"}
    /\ ~sitemap.ch
    /\ ~\E q \in reqs : q.req.col = "S"

\* C28. Sitemap recursion and malformed input: a urlset gives one sitemap
\* record and one enqueue per non-empty loc; the nested sitemaps of a
\* sitemapindex are fetched, one level deep; a malformed or empty body, a
\* status other than 200 or a fetch error gives no record, and the probe
\* paths that remain are still tried.
C28_SitemapProbes ==
    /\ \A e \in emitted :
          e.kind = "sitemap" => e.out \in UrlLocPool \ {NoPage}
    /\ \A r \in issued : r.via = "sitemap" =>
          \E e \in emitted : e.kind = "sitemap" /\ e.out = r.url
    /\ \A r \in issued : r.via = "nested" => r.url \in MapLocPool
    /\ ~SitemapStuck
    /\ sitemap.pc = "done" =>
          sitemap.tried =
             { [site EXCEPT !.path = Concat(@, sitemapUrls[k])] :
                 k \in 1..Len(sitemapUrls) }

\* C29. Linkfinder routing: a linkfinder token that is no noise and in scope
\* goes to the JS feed when its extension is script-like (.js, .xml, .json,
\* .map), and is then neither emitted as a linkfinder record nor enqueued on
\* the primary collector; otherwise it is emitted as a linkfinder record and
\* enqueued on the primary collector. This holds for absolute and relative
\* tokens.
C29_LinkfinderRouting ==
    /\ \A e \in emitted :
          e.kind = "linkfinder" => GetExtType(e.out) \notin ScriptLikeToken
    /\ \A r \in issued :
          r.via = "linkfinder" =>
              (r.col = "LF" <=> GetExtType(r.url) \in ScriptLikeToken)

\* the records of one kind printed for one page
RecordsOf(kind, page) == { e \in emitted : e.kind = kind /\ e.out = page }

\* C30. Form records once per page: at most one form record and at most one
\* upload-form record is emitted per page URL, however many form or
\* file-input elements the page has and however the callbacks interleave.
C30_FormOncePerPage ==
    \A e \in emitted :
        e.kind \in {"form", "upload-form"} =>
            Cardinality(RecordsOf(e.kind, e.out)) = 1

\* two pages are being scraped at once; one of them has fired the form
\* callback twice and the file-input callback twice
C30_Witness ==
    /\ Cardinality({ q \in reqs : q.stage = "html" }) >= 2
    /\ \E q \in reqs :
          /\ q.stage = "html"
          /\ Fired("form", q.url) = MaxForms
          /\ Fired("upload-form", q.url) = MaxForms
          /\ RecordsOf("form", q.url) # {}
          /\ RecordsOf("upload-form", q.url) # {}

\* the responses the primary collector's OnResponse has been handed
TypedAnswers == { a \in answered : a.col = "C" /\ "ct" \in DOMAIN a }

\* a response whose body the claim lets linkfinder read
Scannable(a) ==
    /\ a.length <= maxGrepBody
    /\ InScope(a.url, URLFilters)
    /\ HTMLType(a.ct)

\* a linkfinder pass has left its trace
LinkfinderPassed ==
    \/ \E e \in emitted : e.kind = "linkfinder"
    \/ \E r \in issued : r.via = "linkfinder"
    \/ skipped # {}

\* C31. Body cap and content type: every response of the primary collector
\* that passes the body-length filter gets a url record with its status and
\* length, a body above 4 MB included; linkfinder runs only on a body of at
\* most 4 MB whose response URL is in scope and whose content type is HTML
\* or XHTML, so a response with no content type gets no linkfinder pass.
C31_BodyCapAndType ==
    /\ \A a \in TypedAnswers :
          ~LengthFiltered(a.length) =>
              \E e \in emitted : /\ e.kind = "url" /\ e.out = a.url
                                 /\ e.status = a.status
                                 /\ e.length = a.length
    /\ ((\A a \in TypedAnswers : ~Scannable(a))
           /\ ~\E a \in answered : a.col = "LF")
          => ~LinkfinderPassed

\* the non-empty strings the sources that did not fail returned
FromSuccessful ==
    UNION { Range(archive.src[k].resp) : k \in { j \in fetchFns :
                                                   ~archive.src[j].err } }
        \ {EmptyString}

\* C32. Archive fan-in: OtherSources always terminates, for any number of
\* results per source (more than the channel buffer included) and whichever
\* sources fail; its result holds each distinct non-empty URL a successful
\* source returned exactly once and nothing from a source that returned an
\* error, and a failing source does not keep the others' results back.
C32_ArchiveFanIn ==
    /\ archive.pc = "returned" \/ ENABLED NextFanIn
    /\ Len(archive.out) <= OutCap
    /\ archive.pc = "returned" =>
          /\ Range(archive.result) = FromSuccessful
          /\ \A u \in FromSuccessful : Times(archive.result, u) = 1

\* OtherSources has returned; one source failed, one returned more strings
\* than the channel holds, and the same URL came from two sources
C32_Witness ==
    /\ archive.pc = "returned"
    /\ \E k \in fetchFns : archive.src[k].err
    /\ \E k \in fetchFns : Len(archive.src[k].resp) > OutCap
    /\ \E j, k \in fetchFns :
          /\ j # k
          /\ ~archive.src[j].err /\ ~archive.src[k].err
          /\ ArchiveB \in Range(archive.src[j].resp)
          /\ ArchiveB \in Range(archive.src[k].resp)
    /\ Len(archive.result) = 2

\* C33. OTX page cap: getOtxUrls issues at most 10 page requests for a
\* domain and terminates, also when every page reports has_next = true; it
\* stops at the first page that reports has_next = false, and it returns an
\* empty list together with the error if a page fails to download or parse.
C33_OtxPageCap ==
    call.fn = "getOtxUrls" =>
        /\ Len(call.got) <= 10
        /\ call.pc = "returned" \/ ENABLED NextOtx
        /\ \A i \in 1..Len(call.got) - 1 :
              call.got[i].kind = "page" /\ call.got[i].hasNext
        /\ call.pc = "loop" =>
              \A i \in 1..Len(call.got) :
                  call.got[i].kind = "page" /\ call.got[i].hasNext
        /\ call.pc = "returned" =>
              /\ call.err <=> call.got[Len(call.got)].kind # "page"
              /\ call.err => call.urls = <<>>
              /\ ~call.err =>
                    \/ ~call.got[Len(call.got)].hasNext
                    \/ Len(call.got) = 10

\* ten pages were requested, each reporting has_next = true, and the
\* function has returned what they listed
C33_Witness ==
    /\ call.fn = "getOtxUrls" /\ call.pc = "returned"
    /\ Len(call.got) = 10
    /\ \A i \in 1..10 : call.got[i].kind = "page" /\ call.got[i].hasNext
    /\ ~call.err /\ call.urls # <<>>

\* C34. Header precedence: on every outgoing request of the primary
\* collector a header (Cookie included) set by the explicit cookie or header
\* options keeps the explicitly configured value, also when the raw-request
\* file supplies the same header; the defaults of Accept, Accept-Language
\* and Upgrade-Insecure-Requests are applied only when the header is not
\* already set by an earlier step.
C34_HeaderPrecedence ==
    call.fn = "OnRequest" =>
        /\ \A k \in call.c.headers : call.hdr[k] = "header flag"
        /\ (call.c.cookie /\ "Cookie" \notin call.c.headers)
              => call.hdr["Cookie"] = "cookie flag"
        /\ \A k \in DefaultedKeys :
              call.hdr[k] = "default" <=>
                 (k \notin call.c.headers
                    /\ ~(call.c.burp.given /\ k \in call.c.burp.keys))

\* the explicit patterns of the whitelist and whitelist-domain flags
ExplicitPatterns ==
    (IF call.wl.given THEN {call.wl.pat} ELSE {})
       \cup (IF call.wld.given THEN {call.wld.pat} ELSE {})

\* C35. Allowlist precedence: when a whitelist pattern or a whitelist domain
\* is configured, every scope check of the primary collector and of the JS
\* sub-collector finds a URL in scope if and only if it matches an explicit
\* pattern, also for a bare-domain target whose automatic apex scope would
\* otherwise apply.
C35_AllowlistPrecedence ==
    (call.fn = "NewCrawler" /\ (call.wl.given \/ call.wld.given)) =>
        \A r \in call.checked :
            r.ok <=> InScope(r.url, ExplicitPatterns)

\* the render records of the run
RenderRecords == {e \in emitted : e.kind = "render"}

\* C36. Render queue: the response hook that feeds the render queue is never
\* blocked, and drops the URL when the 64-slot queue is full; the render
\* loop renders, and emits a render record, only for URLs in scope, and
\* never renders a URL (case not counted) more than once in a target run.
C36_RenderQueue ==
    /\ Len(queue) <= QueueCap
    /\ \A u \in {QueuePage} \cup QueueVariants : ENABLED RenderEnqueue(u)
    /\ \A e \in RenderRecords : InScope(e.out, URLFilters)
    /\ navigating # NoPage => InScope(navigating, URLFilters)
    /\ \A e1, e2 \in RenderRecords :
          DupKey(e1.out) = DupKey(e2.out) => e1 = e2
    /\ Cardinality(RenderRecords) = rendered

\* C36 witness: a response is dropped at a full queue after a page was
\* rendered and its variant under another case was skipped.
C36_Witness ==
    /\ call.fn = "OnResponse" /\ call.budget /\ ~call.room
    /\ Len(queue) = QueueCap
    /\ rendered >= 1
    /\ DupKey(QueuePage) \in seenRender
    /\ \E e \in RenderRecords : DupKey(e.out) = DupKey(QueuePage)

\* C37. No filter bypass: every line that reaches stdout or the output file
\* has passed the emit filter for its kind; under a types allowlist no line
\* of a kind outside the allowlist is written, the other-source lines and
\* the raw-body lines of quiet mode included.
C37_NoFilterBypass ==
    call.fn = "run" =>
        \A line \in call.w.stdout \cup call.w.file : OK(call.f, line.kind)

\* C38. Kind consistency: for every emitted record the kind used for the
\* emit filter equals the kind the record shows, the bracket label of a
\* plain line or the type field of a structured one.
C38_KindConsistency ==
    call.fn = "emit" =>
        \A line \in call.lines :
            line.shown # NoLabel => line.shown.text = line.kind

=============================================================================
